---- MODULE Spec2Model ----
(***************************************************************************)
(* The cleaning pipeline of STAT-EZ1 (backend/app.py and                   *)
(* backend/data_processor.py) as a state machine.                          *)
(*                                                                         *)
(* A pandas DataFrame is a record [idx, cols]: idx is the row index        *)
(* (labels, kept by row removal), cols the ordered columns, each with a    *)
(* name, a dtype and one cell per row.  Column names may repeat, as in     *)
(* pandas.  Floats are exact rationals.                                    *)
(*                                                                         *)
(* Three programs are modelled, told apart by `variant`:                   *)
(*   "app"    app.py as written: /process-with-decisions and the class     *)
(*            DataProcessor of lines 136-673;                              *)
(*   "dp"     data_processor.py: DataProcessor.process();                  *)
(*   "bound"  app.py with the functions of lines 1031-1152 (they are       *)
(*            defined inside the body of get_data_summary, after its       *)
(*            return statements) resolved as attributes of the             *)
(*            DataProcessor object, which is what the calls of             *)
(*            process() at lines 639, 649 and 652 presuppose.              *)
(* Spec is the first two; SpecStages is the third.                         *)
(* SpecMissing calls handle_missing_values of app.py and of                *)
(* data_processor.py on a table, outside a run; SpecDelete, SpecOutliers   *)
(* and SpecRules do the same for row deletion, outlier handling and the    *)
(* rule engine.  SpecAnalyze applies the column analyzer and the preview   *)
(* route to text columns; SpecKnn starts both programs in a runtime        *)
(* without sklearn.  SpecVersions serves the requests that name a run by   *)
(* its identifier.  SpecKnnBranch, SpecMode, SpecFlag and SpecCount call   *)
(* the knn branch, imputation by mode, the flag action of the outlier      *)
(* stage and a list of rules on a table.                                   *)
(***************************************************************************)
EXTENDS Integers, Sequences, FiniteSets, TLC

\* Largest number of rows of an input table.
MaxRows == 2

-----------------------------------------------------------------------------
(* Exact arithmetic *)

Abs(x) == IF x < 0 THEN -x ELSE x

RECURSIVE Gcd(_, _)
Gcd(a, b) == IF b = 0 THEN a ELSE Gcd(b, a % b)

-----------------------------------------------------------------------------
(* Cells.  Every cell is a record of one shape; k tells its kind. *)

NaN == [k |-> "nan", n |-> 0, d |-> 1, s |-> ""]

Num(n, d) ==
    LET g == Gcd(Abs(n), d)
    IN  [k |-> "num", n |-> n \div g, d |-> d \div g, s |-> ""]

Str(s) == [k |-> "str", n |-> 0, d |-> 1, s |-> s]

Date(s) == [k |-> "date", n |-> 0, d |-> 1, s |-> s]

Bool(b) == [k |-> "bool", n |-> IF b THEN 1 ELSE 0, d |-> 1, s |-> ""]

isnull(c) == c.k = "nan"

RAdd(x, y) == Num(x.n * y.d + y.n * x.d, x.d * y.d)

RSub(x, y) == Num(x.n * y.d - y.n * x.d, x.d * y.d)

RScale(x, p, q) == Num(x.n * p, x.d * q)

RLess(x, y) == x.n * y.d < y.n * x.d

-----------------------------------------------------------------------------
(* Sequences *)

RECURSIVE SelectIdx(_, _)
\* the positions of s that are in keep, in order
SelectIdx(n, keep) ==
    IF n = 0 THEN << >>
    ELSE IF n \in keep THEN Append(SelectIdx(n - 1, keep), n)
         ELSE SelectIdx(n - 1, keep)

Pick(s, keep) ==
    LET p == SelectIdx(Len(s), keep) IN [i \in 1..Len(p) |-> s[p[i]]]

IsPrefix(s, t) == Len(s) <= Len(t) /\ SubSeq(t, 1, Len(s)) = s

Range(s) == {s[i] : i \in 1..Len(s)}

\* the element of a set of one element
The(S) == CHOOSE x \in S : TRUE

-----------------------------------------------------------------------------
(* DataFrames *)

Column(name, dtype, cells) == [name |-> name, dtype |-> dtype, cells |-> cells]

NRows(t) == Len(t.idx)

columns(t) == [i \in 1..Len(t.cols) |-> t.cols[i].name]

HasColumn(t, name) == \E i \in 1..Len(t.cols) : t.cols[i].name = name

\* positions of the columns called name (more than one when names repeat)
Positions(t, name) == {i \in 1..Len(t.cols) : t.cols[i].name = name}

\* df[name] is a Series only if the name is unique; it is a DataFrame otherwise
IsSeries(t, name) == Cardinality(Positions(t, name)) = 1

Col(t, name) == t.cols[CHOOSE i \in Positions(t, name) : TRUE]

\* df[name] = values: replaces the column where it is, or appends it
SetCol(t, name, dtype, cells) ==
    IF HasColumn(t, name)
    THEN [t EXCEPT !.cols = [i \in 1..Len(t.cols) |->
                IF t.cols[i].name = name THEN Column(name, dtype, cells)
                ELSE t.cols[i]]]
    ELSE [t EXCEPT !.cols = Append(t.cols, Column(name, dtype, cells))]

\* df.drop(columns=[name])
DropCol(t, name) ==
    [t EXCEPT !.cols = Pick(t.cols, {i \in 1..Len(t.cols) : t.cols[i].name # name})]

\* df[mask]: the rows at the positions in keep, index labels kept
KeepRows(t, keep) ==
    [idx  |-> Pick(t.idx, keep),
     cols |-> [i \in 1..Len(t.cols) |->
                 [t.cols[i] EXCEPT !.cells = Pick(t.cols[i].cells, keep)]]]

\* df.isnull().sum() of one column
MissingCount(c) == Cardinality({r \in 1..Len(c.cells) : isnull(c.cells[r])})

\* select_dtypes(include=[np.number]).columns
NumericPositions(t) == {i \in 1..Len(t.cols) : t.cols[i].dtype = "number"}

-----------------------------------------------------------------------------
(* Text values.  The strings a cell of a text column can hold are drawn    *)
(* from TextPool; the regular expressions and parsers of the code are      *)
(* tabulated on them.                                                      *)

TextPool == <<"7", "A1", "x;y">>

\* pd.to_numeric(errors='coerce') on one string
to_numeric(s) == IF s = "7" THEN Num(7, 1) ELSE IF s = "1" THEN Num(1, 1) ELSE NaN

\* pd.to_datetime(errors='coerce') on one string: none of the pool is a date
to_datetime(s) == IF s = "2020-01-02" THEN Date(s) ELSE NaN

\* Series.str.extract(r'(\d+\.?\d*)'): the first run of digits
extract_numeric(s) ==
    IF s = "7" THEN Str("7") ELSE IF s = "A1" THEN Str("1") ELSE NaN

\* Series.str.extract(r'([A-Za-z]+)'): the first run of letters
extract_text(s) ==
    IF s = "A1" THEN Str("A") ELSE IF s = "x;y" THEN Str("x") ELSE NaN

\* str(value), as astype(str) renders a cell
astype_str(c) ==
    CASE c.k = "nan" -> "nan"
      [] c.k = "num" -> IF c.d = 1 THEN ToString(c.n) \o ".0"
                        ELSE ToString(c.n) \o "/" \o ToString(c.d)
      [] c.k = "bool" -> IF c.n = 1 THEN "True" ELSE "False"
      [] OTHER -> c.s

\* str.split(delim): the parts of one string
str_split(s, delim) ==
    IF s = "x;y" /\ delim = ";" THEN <<"x", "y">> ELSE <<s>>

-----------------------------------------------------------------------------
(* The state a stage works on: the processor's table (df), the caller's    *)
(* table, whether self.df is the very object the caller passed (aliased),  *)
(* the audit trail and the exception that is propagating, if any.          *)

NoExc == [type |-> "", at |-> ""]

Entry(stage, what, col) == [stage |-> stage, what |-> what, col |-> col]

\* a log that inserts the entry at the head of the trail
log_first(st, stage, what, col) ==
    [st EXCEPT !.trail = <<Entry(stage, what, col)>> \o @]

\* an operation that records nothing
no_action(st, stage, what, col) == st

\* DataProcessor.log_action / DataProcessor.log: append one entry
log_action(st, stage, what, col) ==
    [st EXCEPT !.trail = Append(@, Entry(stage, what, col))]

Raise(st, type, at) == [st EXCEPT !.exc = [type |-> type, at |-> at]]

\* an operation that changes the object self.df refers to (inplace=True,
\* df[col] = ...): the caller sees it when self.df is the caller's object
InPlace(st, t) ==
    [st EXCEPT !.df = t, !.caller = IF st.aliased THEN t ELSE @]

\* self.df = <new frame>: the name is bound to a new object
Rebind(st, t) == [st EXCEPT !.df = t, !.aliased = FALSE]

\* self.df = df: the processor works on the caller's object
NoCopy(caller) == [df |-> caller, aliased |-> TRUE]

\* DataProcessor.__init__: self.df = df.copy()
DfCopy(caller) == [df |-> caller, aliased |-> FALSE]

-----------------------------------------------------------------------------
(* Column decisions, app.py *)

Decision(isMap, hasAction, action, drop) ==
    [isMap |-> isMap, hasAction |-> hasAction, action |-> action,
     drop_original |-> drop]

\* pd.to_numeric(series, errors='coerce')
SeriesToNumeric(c) ==
    IF c.dtype = "object"
    THEN Column(c.name, "number",
                [r \in 1..Len(c.cells) |->
                    IF c.cells[r].k = "str" THEN to_numeric(c.cells[r].s)
                    ELSE c.cells[r]])
    ELSE c

\* pd.to_datetime(series, errors='coerce')
SeriesToDatetime(c) ==
    CASE c.dtype = "object" ->
           Column(c.name, "datetime",
                  [r \in 1..Len(c.cells) |->
                      IF c.cells[r].k = "str" THEN to_datetime(c.cells[r].s)
                      ELSE c.cells[r]])
      [] c.dtype = "number" ->
           Column(c.name, "datetime",
                  [r \in 1..Len(c.cells) |->
                      IF c.cells[r].k = "num"
                      THEN [c.cells[r] EXCEPT !.k = "date", !.s = "ns"]
                      ELSE c.cells[r]])
      [] OTHER -> c

\* the body of the try block of apply_column_decisions for one column
DecisionBody(st, column_name, decision) ==
    LET df == st.df
        action == decision.action
    IN
    CASE action = "convert_to_numeric" ->
           IF ~IsSeries(df, column_name)
           THEN log_action(st, "decisions", "error", column_name)
           ELSE LET c == SeriesToNumeric(Col(df, column_name))
                IN  log_action(InPlace(st, SetCol(df, column_name, c.dtype, c.cells)),
                               "decisions", "converted_numeric", column_name)
      [] action = "convert_to_date" ->
           IF ~IsSeries(df, column_name)
           THEN log_action(st, "decisions", "error", column_name)
           ELSE LET c == SeriesToDatetime(Col(df, column_name))
                IN  log_action(InPlace(st, SetCol(df, column_name, c.dtype, c.cells)),
                               "decisions", "converted_date", column_name)
      [] action = "split_column" ->
           IF ~IsSeries(df, column_name) \/ Col(df, column_name).dtype # "object"
           THEN log_action(st, "decisions", "error", column_name)
           ELSE LET c == Col(df, column_name)
                    numeric_part == [r \in 1..Len(c.cells) |->
                        IF c.cells[r].k = "str" THEN extract_numeric(c.cells[r].s)
                        ELSE NaN]
                    text_part == [r \in 1..Len(c.cells) |->
                        IF c.cells[r].k = "str" THEN extract_text(c.cells[r].s)
                        ELSE NaN]
                    nums == [r \in 1..Len(c.cells) |->
                        IF numeric_part[r].k = "str" THEN to_numeric(numeric_part[r].s)
                        ELSE NaN]
                    t1 == SetCol(df, column_name \o "_numeric", "number", nums)
                    t2 == SetCol(t1, column_name \o "_text", "object", text_part)
                    t3 == IF decision.drop_original THEN DropCol(t2, column_name)
                          ELSE t2
                IN  log_action(InPlace(st, t3), "decisions", "split", column_name)
      [] action \in {"keep_as_text", "keep_as_categorical"} ->
           log_action(st, "decisions", "kept", column_name)
      [] OTHER -> st

\* one turn of the loop of apply_column_decisions; decision['action'] is
\* read before the try block
ApplyDecision(st, column_name, decision) ==
    IF ~HasColumn(st.df, column_name) THEN st
    ELSE IF ~decision.isMap THEN Raise(st, "TypeError", "apply_column_decisions")
    ELSE IF ~decision.hasAction THEN Raise(st, "KeyError", "apply_column_decisions")
    ELSE DecisionBody(st, column_name, decision)

RECURSIVE apply_column_decisions(_, _)
\* decisions is the sequence of the map's items, in the map's order
apply_column_decisions(st, decisions) ==
    IF decisions = << >> \/ st.exc # NoExc THEN st
    ELSE apply_column_decisions(
             ApplyDecision(st, decisions[1].column, decisions[1].decision),
             Tail(decisions))

-----------------------------------------------------------------------------
(* Schema mapping *)

\* a section of the configuration is present (config[name] does not raise)
Has(config, section) == section \in config.has

RECURSIVE UniqueName(_, _, _, _, _)
\* the while loop of apply_schema_mapping (app.py): the names are looked up
\* in self.df.columns, which no turn of the enclosing loop changes
UniqueName(df, mapped_type, original_col, new_name, counter) ==
    IF HasColumn(df, new_name) /\ new_name # original_col
    THEN UniqueName(df, mapped_type, original_col,
                    mapped_type \o "_" \o ToString(counter), counter + 1)
    ELSE new_name

RECURSIVE RenameMap(_, _)
\* rename_map of apply_schema_mapping (app.py), as the sequence of its items
RenameMap(df, mapping) ==
    IF mapping = << >> THEN << >>
    ELSE LET original_col == mapping[1].from
             mapped_type == mapping[1].to
             rest == RenameMap(df, Tail(mapping))
         IN  IF mapped_type # "other" /\ mapped_type # original_col
             THEN LET new_name == UniqueName(df, mapped_type, original_col,
                                             mapped_type, 1)
                  IN  IF new_name # original_col
                      THEN <<[from |-> original_col, to |-> new_name]>> \o rest
                      ELSE rest
             ELSE rest

\* df.rename(columns=m): every column whose name is a key of m is renamed
rename(t, m) ==
    [t EXCEPT !.cols = [i \in 1..Len(t.cols) |->
        IF \E j \in 1..Len(m) : m[j].from = t.cols[i].name
        THEN [t.cols[i] EXCEPT !.name =
                 m[CHOOSE j \in 1..Len(m) : m[j].from = t.cols[i].name].to]
        ELSE t.cols[i]]]

\* apply_schema_mapping, app.py
apply_schema_mapping(st, config) ==
    LET mapping == IF Has(config, "schema_mapping") THEN config.schema_mapping
                   ELSE << >>
        rename_map == RenameMap(st.df, mapping)
    IN  IF mapping = << >> \/ rename_map = << >> THEN st
        ELSE log_action(InPlace(st, rename(st.df, rename_map)),
                        "schema", "mapped", "")

\* DataProcessor.apply_schema_mapping, data_processor.py
dp_apply_schema_mapping(st, config) ==
    LET mapping == IF Has(config, "schema_mapping") THEN config.schema_mapping
                   ELSE << >>
    IN  IF mapping = << >> THEN st
        ELSE InPlace(log_action(st, "schema", "mapping", ""),
                     rename(st.df, mapping))

-----------------------------------------------------------------------------
(* Column statistics *)

\* the present (non-missing) numeric values of a column, in row order
Present(cells) == Pick(cells, {r \in 1..Len(cells) : cells[r].k = "num"})

RECURSIVE RSum(_)
RSum(vals) == IF vals = << >> THEN Num(0, 1) ELSE RAdd(vals[1], RSum(Tail(vals)))

\* Series.the first present value of a column
first_valid(cells) ==
    LET v == Present(cells) IN IF v = << >> THEN NaN ELSE v[1]

\* Series.mean(): NaN when no value is present
mean(cells) ==
    LET v == Present(cells)
    IN  IF v = << >> THEN NaN ELSE RScale(RSum(v), 1, Len(v))

\* Series.median(): NaN when no value is present
median(cells) ==
    LET v == SortSeq(Present(cells), RLess)
        n == Len(v)
    IN  IF n = 0 THEN NaN
        ELSE IF n % 2 = 1 THEN v[(n + 1) \div 2]
        ELSE RScale(RAdd(v[n \div 2], v[n \div 2 + 1]), 1, 2)

\* Series.fillna(value): a NaN value fills nothing
fillna(cells, value) ==
    [r \in 1..Len(cells) |-> IF isnull(cells[r]) THEN value ELSE cells[r]]

\* df.isnull().sum().to_dict(): column name -> number of missing cells (of
\* columns that share a name, the last one's count)
MissingDict(t) ==
    [nm \in Range(columns(t)) |->
        MissingCount(t.cols[CHOOSE i \in Positions(t, nm) :
                                \A j \in Positions(t, nm) : j <= i])]

\* the rows with no missing cell in a numeric column
NumericCompleteRows(t) ==
    {r \in 1..NRows(t) :
        \A i \in 1..Len(t.cols) :
            t.cols[i].dtype = "number" => ~isnull(t.cols[i].cells[r])}

\* the rows with no missing cell in any column
CompleteRows(t) ==
    {r \in 1..NRows(t) : \A i \in 1..Len(t.cols) : ~isnull(t.cols[i].cells[r])}

\* writes cells into the column at position i
SetCells(t, i, cells) == [t EXCEPT !.cols[i].cells = cells]

-----------------------------------------------------------------------------
(* KNNImputer of sklearn.impute: uniform weights, nan-euclidean distance.  *)
(* Among equally distant donors the one in the earlier row is taken.       *)

\* KNNImputer() and .get('knn_neighbors', 5)
DefaultNeighbors == 5

RSquare(x) == Num(x.n * x.n, x.d * x.d)

\* the squared nan-euclidean distance of rows r and q over the columns at the
\* positions cols: the squares over the columns both rows hold, scaled by
\* the share of such columns; NaN when they share none
SqDistance(t, cols, r, q) ==
    LET both == {i \in cols : ~isnull(t.cols[i].cells[r]) /\ ~isnull(t.cols[i].cells[q])}
        p == SelectIdx(Len(t.cols), both)
        squares == [n \in 1..Len(p) |->
                       RSquare(RSub(t.cols[p[n]].cells[r], t.cols[p[n]].cells[q]))]
    IN  IF both = {} THEN NaN
        ELSE RScale(RSum(squares), Cardinality(cols), Cardinality(both))

\* donor q1 comes before donor q2 in the order of their distances to row r,
\* a NaN distance after every number
Nearer(t, cols, r, q1, q2) ==
    LET d1 == SqDistance(t, cols, r, q1)
        d2 == SqDistance(t, cols, r, q2)
    IN  \/ d1.k = "num" /\ d2.k = "nan"
        \/ d1.k = "num" /\ d2.k = "num" /\ RLess(d1, d2)
        \/ d1.k = d2.k /\ ~RLess(d1, d2) /\ ~RLess(d2, d1) /\ q1 < q2

\* the value imputed in row r of the column at position j
KnnValue(t, cols, n_neighbors, r, j) ==
    LET cells == t.cols[j].cells
        donors == {q \in 1..NRows(t) : ~isnull(cells[q])}
        nearest == {q \in donors :
                       Cardinality({o \in donors : Nearer(t, cols, r, o, q)}) < n_neighbors}
        weighted == {q \in nearest : SqDistance(t, cols, r, q).k = "num"}
    IN  IF \A q \in donors : SqDistance(t, cols, r, q).k = "nan" THEN mean(cells)
        ELSE mean(Pick(cells, weighted))

\* KNNImputer(n_neighbors).fit_transform(df[cols]) written back to df[cols],
\* every column of cols holding a value
KNNImputer(t, cols, n_neighbors) ==
    [t EXCEPT !.cols = [j \in 1..Len(t.cols) |->
        IF j \in cols
        THEN [t.cols[j] EXCEPT !.cells = [r \in 1..NRows(t) |->
                 IF isnull(t.cols[j].cells[r]) THEN KnnValue(t, cols, n_neighbors, r, j)
                 ELSE t.cols[j].cells[r]]]
        ELSE t.cols[j]]]

\* the smaller of two numbers
Min(a, b) == IF a < b THEN a ELSE b

-----------------------------------------------------------------------------
(* Missing values, app.py *)

\* knn_cols of the knn branch, as column positions: the column and the other
\* numeric columns with fewer missing cells
KnnCols(t, j) ==
    {j} \cup {o \in NumericPositions(t) :
                 t.cols[o].name # t.cols[j].name
                 /\ MissingCount(t.cols[o]) < MissingCount(t.cols[j])}

\* len(self.df)
EveryRow(t, cols) == NRows(t)

\* len(self.df.dropna(subset=knn_cols))
CompleteOver(t, cols) ==
    Cardinality({r \in 1..NRows(t) : \A i \in cols : ~isnull(t.cols[i].cells[r])})

\* the knn branch for the column at position i
KnnBranch(st, imputation, i) ==
    LET t == st.df
        col == t.cols[i].name
        cells == t.cols[i].cells
        knn_cols == KnnCols(t, i)
        n_neighbors == Min(imputation.knn_neighbors, CompleteOver(t, knn_cols))
        fallback == log_action(InPlace(st, SetCells(t, i, fillna(cells, mean(cells)))),
                               "missing", "fallback_mean", col)
    IN  IF \E o \in NumericPositions(t) : ~IsSeries(t, t.cols[o].name)
        THEN Raise(st, "ValueError", "handle_missing_values")
        ELSE IF Cardinality(knn_cols) > 1
        THEN IF n_neighbors > 0
             THEN log_action(InPlace(st, KNNImputer(t, knn_cols, n_neighbors)),
                             "missing", "knn_" \o ToString(n_neighbors), col)
             ELSE fallback
        ELSE fallback

\* the effective method of one column: the column_specific override when it
\* is set and truthy, else config['imputation']['method']
HasOverride(imputation, col) ==
    col \in DOMAIN imputation.column_specific /\ imputation.column_specific[col] # ""

\* one turn of the loop over numeric_cols
ImputeColumn(st, imputation, col) ==
    IF ~HasOverride(imputation, col) /\ ~imputation.hasMethod
    THEN Raise(st, "KeyError", "handle_missing_values")
    ELSE IF ~IsSeries(st.df, col)
    THEN Raise(st, "ValueError", "handle_missing_values")
    ELSE
    LET method == IF HasOverride(imputation, col)
                  THEN imputation.column_specific[col] ELSE imputation.method
        i == CHOOSE p \in Positions(st.df, col) : TRUE
        cells == st.df.cols[i].cells
    IN  IF MissingCount(st.df.cols[i]) > 0
        THEN CASE method = "mean" ->
                    log_action(InPlace(st, SetCells(st.df, i, fillna(cells, mean(cells)))),
                               "missing", "imputed_mean", col)
               [] method = "median" ->
                    log_action(InPlace(st, SetCells(st.df, i, fillna(cells, median(cells)))),
                               "missing", "imputed_median", col)
               [] method = "knn" -> KnnBranch(st, imputation, i)
               [] OTHER -> st
        ELSE st

RECURSIVE ImputeColumns(_, _, _)
ImputeColumns(st, imputation, numeric_cols) ==
    IF numeric_cols = << >> \/ st.exc # NoExc THEN st
    ELSE ImputeColumns(ImputeColumn(st, imputation, numeric_cols[1]),
                       imputation, Tail(numeric_cols))

\* DataProcessor.handle_missing_values, app.py; mb and ma are the pair it
\* returns
handle_missing_values(st, config) ==
    LET s1 == log_action(st, "missing", "start", "")
        missing_before == MissingDict(st.df)
    IN  IF ~Has(config, "imputation")
        THEN Raise(s1, "KeyError", "handle_missing_values")
        ELSE IF config.imputation.delete_null_rows
        THEN LET s2 == Rebind(s1, KeepRows(st.df, CompleteRows(st.df)))
                 s3 == log_action(s2, "missing", "deleted_rows", "")
             IN  [s3 EXCEPT !.mb = missing_before, !.ma = MissingDict(s3.df)]
        ELSE IF NumericPositions(st.df) = {}
        THEN [log_action(s1, "missing", "no_numeric", "")
                 EXCEPT !.mb = missing_before, !.ma = MissingDict(st.df)]
        ELSE LET numeric_cols == Pick(columns(st.df), NumericPositions(st.df))
                 s2 == ImputeColumns(s1, config.imputation, numeric_cols)
             IN  IF s2.exc # NoExc THEN s2
                 ELSE [s2 EXCEPT !.mb = missing_before, !.ma = MissingDict(s2.df)]

-----------------------------------------------------------------------------
(* Missing values, data_processor.py *)

\* one turn of the loop over numeric_cols for mean and median; a failure
\* inside the try block is reported in exc and caught by the caller
DpImputeColumn(st, method, col) ==
    IF ~IsSeries(st.df, col) THEN Raise(st, "ValueError", "caught")
    ELSE LET i == CHOOSE p \in Positions(st.df, col) : TRUE
             cells == st.df.cols[i].cells
             val == IF method = "mean" THEN mean(cells) ELSE median(cells)
         IN  IF MissingCount(st.df.cols[i]) > 0
             THEN log_action(InPlace(st, SetCells(st.df, i, fillna(cells, val))),
                             "missing", "filled", col)
             ELSE st

RECURSIVE DpImputeColumns(_, _, _)
DpImputeColumns(st, method, cols) ==
    IF cols = << >> \/ st.exc # NoExc THEN st
    ELSE DpImputeColumns(DpImputeColumn(st, method, cols[1]), method, Tail(cols))

\* Series.mode(): the most frequent present values, the smallest first
Modes(cells) ==
    LET present == Range(Present(cells))
        count(v) == Cardinality({r \in 1..Len(cells) : cells[r] = v})
    IN  {v \in present : \A w \in present : count(w) <= count(v)}

\* mode.iloc[0]; among equally frequent text values the model takes one
first_mode(cells) ==
    LET modes == Modes(cells)
    IN  IF \A v \in modes : v.k = "num"
        THEN CHOOSE v \in modes : \A w \in modes : ~RLess(w, v)
        ELSE CHOOSE v \in modes : TRUE

\* one turn of the loop over self.df.columns for mode; fillna(None) raises
\* for a column with no present value
DpModeColumn(st, col) ==
    IF ~IsSeries(st.df, col) THEN Raise(st, "ValueError", "caught")
    ELSE LET i == CHOOSE p \in Positions(st.df, col) : TRUE
             cells == st.df.cols[i].cells
         IN  IF MissingCount(st.df.cols[i]) = 0 THEN st
             ELSE IF Modes(cells) = {} THEN Raise(st, "ValueError", "caught")
             ELSE log_action(InPlace(st, SetCells(st.df, i, fillna(cells, first_mode(cells)))),
                             "missing", "filled", col)

RECURSIVE DpModeColumns(_, _)
DpModeColumns(st, cols) ==
    IF cols = << >> \/ st.exc # NoExc THEN st
    ELSE DpModeColumns(DpModeColumn(st, cols[1]), Tail(cols))

\* the loop of the branch taken when sklearn could not be imported: no
\* entry is logged per column
RECURSIVE DpFallbackColumns(_, _)
DpFallbackColumns(st, cols) ==
    IF cols = << >> \/ st.exc # NoExc THEN st
    ELSE IF ~IsSeries(st.df, cols[1]) THEN Raise(st, "ValueError", "caught")
    ELSE LET i == CHOOSE p \in Positions(st.df, cols[1]) : TRUE
             cells == st.df.cols[i].cells
             s1 == IF MissingCount(st.df.cols[i]) > 0
                   THEN InPlace(st, SetCells(st.df, i, fillna(cells, mean(cells))))
                   ELSE st
         IN  DpFallbackColumns(s1, Tail(cols))

\* self.df[numeric_cols] = imputer.fit_transform(self.df[numeric_cols]); the
\* imputer raises on an empty selection and drops a column with no value,
\* and the assignment of the narrower array raises
DpKnn(st) ==
    LET t == st.df
        P == NumericPositions(t)
    IN  IF \/ P = {} \/ NRows(t) = 0
           \/ \E j \in P : ~IsSeries(t, t.cols[j].name) \/ Present(t.cols[j].cells) = << >>
        THEN Raise(st, "ValueError", "caught")
        ELSE InPlace(st, KNNImputer(t, P, DefaultNeighbors))

\* DataProcessor.handle_missing_values, data_processor.py
dp_handle_missing_values(st, config) ==
    LET method == IF Has(config, "imputation") /\ config.imputation.hasMethod
                  THEN config.imputation.method ELSE ""
    IN  IF method = "" THEN log_action(st, "missing", "no_method", "")
        ELSE LET s1 == log_action(st, "missing", "method", "")
                 numeric_cols == Pick(columns(st.df), NumericPositions(st.df))
                 s2 == CASE method \in {"mean", "median"} ->
                              DpImputeColumns(s1, method, numeric_cols)
                         [] method = "mode" -> DpModeColumns(s1, columns(st.df))
                         [] method = "knn" ->
                              IF ~st.sklearn
                              THEN DpFallbackColumns(
                                       log_action(s1, "missing", "knn_fallback", ""),
                                       numeric_cols)
                              ELSE DpKnn(log_action(s1, "missing", "running_knn", ""))
                         [] OTHER -> log_action(s1, "missing", "unknown_method", "")
             IN  IF s2.exc # NoExc
                 THEN log_action([s2 EXCEPT !.exc = NoExc], "missing", "error", "")
                 ELSE s2

-----------------------------------------------------------------------------
(* Outliers *)

\* Series.quantile(num/den), linear interpolation between order statistics;
\* NaN when no value is present
quantile(cells, num, den) ==
    LET v == SortSeq(Present(cells), RLess)
        n == Len(v)
        lo == (num * (n - 1)) \div den
        fr == (num * (n - 1)) % den
    IN  IF n = 0 THEN NaN
        ELSE IF fr = 0 THEN v[lo + 1]
        ELSE RAdd(v[lo + 1], RScale(RSub(v[lo + 2], v[lo + 1]), fr, den))

\* x < y on cells; False when either is NaN
Lt(x, y) == x.k = "num" /\ y.k = "num" /\ RLess(x, y)

\* [Q1 - threshold*IQR, Q3 + threshold*IQR] of a column; threshold = tn/td
IqrBounds(cells, tn, td) ==
    LET Q1 == quantile(cells, 1, 4)
        Q3 == quantile(cells, 3, 4)
    IN  IF Q1.k # "num" THEN [lower |-> NaN, upper |-> NaN]
        ELSE LET IQR == RSub(Q3, Q1)
             IN  [lower |-> RSub(Q1, RScale(IQR, tn, td)),
                  upper |-> RAdd(Q3, RScale(IQR, tn, td))]

\* the rows of a column outside its bounds
IqrOutliers(cells, tn, td) ==
    LET b == IqrBounds(cells, tn, td)
    IN  {r \in 1..Len(cells) : Lt(cells[r], b.lower) \/ Lt(b.upper, cells[r])}

\* np.abs(stats.zscore(col.dropna())) > threshold: the rows whose distance
\* to the mean exceeds threshold population standard deviations; none when
\* the deviation is zero
ZscoreOutliers(cells, tn, td) ==
    LET present == Present(cells)
        m == mean(cells)
        squares == [n \in 1..Len(present) |-> RSquare(RSub(present[n], m))]
        variance == RScale(RSum(squares), 1, Len(present))
    IN  IF present = << >> THEN {}
        ELSE {r \in 1..Len(cells) :
                 /\ cells[r].k = "num"
                 /\ RLess(RScale(variance, tn * tn, td * td), RSquare(RSub(cells[r], m)))
                 /\ RLess(Num(0, 1), variance)}

\* pd.Series([False] * len(self.df)): a mask over the labels 0..n-1
NewMask(df) == [index |-> 0..(NRows(df) - 1), flagged |-> {}, raised |-> ""]

\* one turn of the loop over numeric_cols. zscore sets the mask at the
\* labels of the outlier rows and raises for a label the mask does not
\* have; iqr computes outlier_mask | col_outliers, which aligns the two on
\* their labels and is False at a label either side lacks
ColumnMask(df, od, cells, mask) ==
    LET labels == Range(df.idx)
    IN  CASE od.method = "zscore" ->
               LET col == {df.idx[r] : r \in ZscoreOutliers(cells, od.threshold.n,
                                                              od.threshold.d)}
               IN  IF col \subseteq mask.index
                   THEN [mask EXCEPT !.flagged = @ \cup col]
                   ELSE [mask EXCEPT !.raised = "KeyError"]
          [] od.method = "iqr" ->
               LET col == {df.idx[r] : r \in IqrOutliers(cells, od.threshold.n,
                                                           od.threshold.d)}
               IN  [index |-> mask.index \cup labels, raised |-> "",
                    flagged |-> {l \in mask.index \cap labels :
                                    l \in mask.flagged \cup col}]
          [] OTHER -> mask

RECURSIVE OutlierMask(_, _, _, _)
\* the loop of detect_outliers (app.py) over numeric_cols; raises when a
\* name selects several columns
OutlierMask(df, od, numeric_cols, mask) ==
    IF numeric_cols = << >> \/ mask.raised # "" THEN mask
    ELSE IF ~IsSeries(df, numeric_cols[1]) THEN [mask EXCEPT !.raised = "ValueError"]
    ELSE The({OutlierMask(df, od, Tail(numeric_cols), m) :
                 m \in {ColumnMask(df, od, Col(df, numeric_cols[1]).cells, mask)}})

\* detect_outliers, app.py; od is the value it returns. df[~outlier_mask]
\* raises when the mask lacks a label of the table, and the assignment of
\* the flag column leaves a row the mask lacks without a value
detect_outliers(st, config) ==
    IF ~Has(config, "outlier_detection")
    THEN Raise(st, "KeyError", "detect_outliers")
    ELSE IF ~config.outlier_detection.enabled THEN [st EXCEPT !.od = 0]
    ELSE
    The({
    LET s1 == log_action(st, "outliers", "start", "")
        outliers_detected == Cardinality(outlier_mask.flagged)
        rows == 1..NRows(st.df)
        aligned == Range(st.df.idx) \subseteq outlier_mask.index
    IN  IF outlier_mask.raised # "" THEN Raise(s1, outlier_mask.raised, "detect_outliers")
        ELSE IF outliers_detected > 0
        THEN IF config.outlier_detection.action = "remove"
             THEN IF ~aligned THEN Raise(s1, "IndexingError", "detect_outliers")
                  ELSE [log_action(Rebind(s1, KeepRows(st.df,
                                       {r \in rows : st.df.idx[r] \notin outlier_mask.flagged})),
                                   "outliers", "removed", "")
                           EXCEPT !.od = outliers_detected]
             ELSE [log_action(InPlace(s1, SetCol(st.df, "_outlier_flag",
                                  IF aligned THEN "bool" ELSE "object",
                                  [r \in rows |->
                                      IF st.df.idx[r] \in outlier_mask.index
                                      THEN Bool(st.df.idx[r] \in outlier_mask.flagged)
                                      ELSE NaN])),
                              "outliers", "flagged", "")
                      EXCEPT !.od = outliers_detected]
        ELSE [s1 EXCEPT !.od = 0]
    : outlier_mask \in {OutlierMask(st.df, config.outlier_detection,
                                    Pick(columns(st.df), NumericPositions(st.df)),
                                    NewMask(st.df))}})

\* np.where(col > upper, upper, col) alone
CapUpperOnly(cells, b) ==
    [r \in 1..Len(cells) |-> IF Lt(b.upper, cells[r]) THEN b.upper ELSE cells[r]]

\* np.where(col < lower, lower, col) then np.where(col > upper, upper, col)
Cap(cells, b) ==
    [r \in 1..Len(cells) |->
        IF Lt(cells[r], b.lower) THEN b.lower
        ELSE IF Lt(b.upper, cells[r]) THEN b.upper ELSE cells[r]]

\* one turn of the iqr loop of detect_outliers (data_processor.py); a
\* failure inside the try block is reported in exc and caught by the caller
DpOutlierColumn(st, action, c) ==
    IF ~IsSeries(st.df, c) THEN Raise(st, "ValueError", "caught")
    ELSE
    LET i == CHOOSE p \in Positions(st.df, c) : TRUE
        cells == st.df.cols[i].cells
        b == IqrBounds(cells, 3, 2)
    IN  CASE action = "remove" ->
               log_action(Rebind(st, KeepRows(st.df,
                              {r \in 1..Len(cells) : r \notin IqrOutliers(cells, 3, 2)})),
                          "outliers", "removed", c)
          [] action = "cap" ->
               log_action(InPlace(st, SetCells(st.df, i, Cap(cells, b))),
                          "outliers", "capped", c)
          [] OTHER -> st

RECURSIVE DpOutlierColumns(_, _, _)
DpOutlierColumns(st, action, cols) ==
    IF cols = << >> \/ st.exc # NoExc THEN st
    ELSE DpOutlierColumns(DpOutlierColumn(st, action, cols[1]), action, Tail(cols))

\* DataProcessor.detect_outliers, data_processor.py
dp_detect_outliers(st, config) ==
    IF ~Has(config, "outliers") THEN log_action(st, "outliers", "no_config", "")
    ELSE
    LET s1 == log_action(st, "outliers", "start", "")
        num_cols == Pick(columns(st.df), NumericPositions(st.df))
        s2 == IF config.outliers.method = "iqr"
              THEN DpOutlierColumns(s1, config.outliers.action, num_cols)
              ELSE log_action(s1, "outliers", "unknown_method", "")
    IN  IF s2.exc # NoExc
        THEN log_action([s2 EXCEPT !.exc = NoExc], "outliers", "error", "")
        ELSE s2

-----------------------------------------------------------------------------
(* Rules, app.py *)

\* float(value): the number, or NaN standing for ValueError
float(value) ==
    CASE value.k = "num" -> value
      [] value.k = "str" /\ value.s = "30" -> Num(30, 1)
      [] value.k = "str" /\ value.s = "7" -> Num(7, 1)
      [] value.k = "str" /\ value.s = "1" -> Num(1, 1)
      [] OTHER -> NaN

\* re.search(pattern, s) for the patterns and strings in use
contains(s, pattern) ==
    \/ s = pattern
    \/ pattern = ""
    \/ pattern = "x" /\ s = "x;y"
    \/ pattern = "1" /\ s \in {"A1", "1.0"}
    \/ pattern = "7" /\ s = "7.0"

\* the number a cell compares as (True is 1, False is 0)
AsNum(c) == Num(c.n, c.d)

Comparable(c) == c.k \in {"num", "bool"}

\* a mask that selects the values greater than or equal to the rule's value
RuleMaskAtLeast(col, condition, value) ==
    [error |-> FALSE,
     rows |-> {r \in 1..Len(col.cells) :
                  Comparable(col.cells[r]) /\ ~RLess(AsNum(col.cells[r]), float(value))}]

\* the mask of one rule as the set of selected rows, for a column that is a
\* Series; "error" is TRUE when building it raises
RuleMask(col, condition, value) ==
    LET cells == col.cells
        rows == 1..Len(cells)
        v == float(value)
        text == \E r \in rows : cells[r].k \in {"str", "date"}
    IN
    CASE condition \in {"greater_than", "less_than"} ->
           IF v.k # "num" \/ text THEN [error |-> TRUE, rows |-> {}]
           ELSE [error |-> FALSE,
                 rows |-> {r \in rows : Comparable(cells[r]) /\
                              IF condition = "greater_than"
                              THEN RLess(v, AsNum(cells[r]))
                              ELSE RLess(AsNum(cells[r]), v)}]
      [] condition = "equals" ->
           [error |-> FALSE, rows |-> {r \in rows : cells[r] = value}]
      [] condition = "not_equals" ->
           [error |-> FALSE, rows |-> {r \in rows : cells[r] # value}]
      [] condition \in {"contains", "not_contains"} ->
           IF value.k # "str" THEN [error |-> TRUE, rows |-> {}]
           ELSE LET hit == {r \in rows : contains(astype_str(cells[r]), value.s)}
                IN  [error |-> FALSE,
                     rows |-> IF condition = "contains" THEN hit ELSE rows \ hit]
      [] condition = "is_null" ->
           [error |-> FALSE, rows |-> {r \in rows : isnull(cells[r])}]
      [] condition = "is_not_null" ->
           [error |-> FALSE, rows |-> {r \in rows : ~isnull(cells[r])}]
      [] OTHER -> [error |-> FALSE, rows |-> {}]

\* one turn of the loop of apply_rules; rule['column'], rule['condition']
\* and rule['action'] are read before the try block
ApplyRule(st, rule) ==
    IF ~(rule.hasColumn /\ rule.hasCondition /\ rule.hasAction)
    THEN Raise(st, "KeyError", "apply_rules")
    ELSE IF ~HasColumn(st.df, rule.column) THEN st
    ELSE IF ~IsSeries(st.df, rule.column)
    THEN log_action(st, "rules", "error", rule.column)
    ELSE
    LET m == RuleMask(Col(st.df, rule.column), rule.condition, rule.value)
        rows == 1..NRows(st.df)
        affected_rows == Cardinality(m.rows)
        flag_col == "_rule_flag_" \o rule.column \o "_" \o rule.condition
    IN  IF m.error THEN log_action(st, "rules", "error", rule.column)
        ELSE IF affected_rows > 0
        THEN LET s1 ==
                   CASE rule.action = "remove" ->
                          log_action(Rebind(st, KeepRows(st.df, rows \ m.rows)),
                                     "rules", "removed", rule.column)
                     [] rule.action = "flag" ->
                          log_action(InPlace(st, SetCol(st.df, flag_col, "bool",
                                         [r \in rows |-> Bool(r \in m.rows)])),
                                     "rules", "flagged", rule.column)
                     [] OTHER -> st
             IN  [s1 EXCEPT !.ra = @ + 1]
        ELSE st

RECURSIVE ApplyRules(_, _)
ApplyRules(st, custom_rules) ==
    IF custom_rules = << >> \/ st.exc # NoExc THEN st
    ELSE ApplyRules(ApplyRule(st, custom_rules[1]), Tail(custom_rules))

\* apply_rules, app.py; ra is the value it returns
apply_rules(st, config) ==
    IF ~Has(config, "rules") THEN Raise(st, "KeyError", "apply_rules")
    ELSE IF ~config.rules.enabled THEN [st EXCEPT !.ra = 0]
    ELSE ApplyRules([log_action(st, "rules", "start", "") EXCEPT !.ra = 0],
                    config.rules.custom_rules)

-----------------------------------------------------------------------------
(* Column conversions, data_processor.py *)

\* the parts of the cells of a column after astype(str).str.split(delim)
SplitParts(cells, delim) ==
    [r \in 1..Len(cells) |-> str_split(astype_str(cells[r]), delim)]

RECURSIVE MaxParts(_)
MaxParts(parts) ==
    IF parts = << >> THEN 0
    ELSE LET m == MaxParts(Tail(parts))
         IN  IF Len(parts[1]) > m THEN Len(parts[1]) ELSE m

RECURSIVE AddSplitColumns(_, _, _, _)
\* for i in range(splits.shape[1]): self.df[f"{prefix}_{i+1}"] = ...
AddSplitColumns(t, prefix, parts, i) ==
    IF i > MaxParts(parts) THEN t
    ELSE AddSplitColumns(
             SetCol(t, prefix \o "_" \o ToString(i), "object",
                    [r \in 1..Len(parts) |->
                        IF i > Len(parts[r]) \/ parts[r][i] = "nan" THEN NaN
                        ELSE Str(parts[r][i])]),
             prefix, parts, i + 1)

\* one turn of the loop of convert_columns
ConvertColumn(st, col, dec) ==
    IF ~HasColumn(st.df, col) THEN log_action(st, "decisions", "absent", col)
    ELSE
    LET action == IF dec.isMap /\ ~dec.hasAction THEN "None" ELSE dec.action
        df == st.df
    IN
    CASE action \in {"numeric", "to_numeric"} ->
           LET s1 == log_action(st, "decisions", "converting_numeric", col)
           IN  IF ~IsSeries(df, col) THEN log_action(s1, "decisions", "failed", col)
               ELSE LET c == SeriesToNumeric(Col(df, col))
                    IN  InPlace(s1, SetCol(df, col, c.dtype, c.cells))
      [] action \in {"date", "to_date"} ->
           LET s1 == log_action(st, "decisions", "converting_date", col)
           IN  IF ~IsSeries(df, col) THEN log_action(s1, "decisions", "failed", col)
               ELSE LET c == SeriesToDatetime(Col(df, col))
                    IN  InPlace(s1, SetCol(df, col, c.dtype, c.cells))
      [] action = "split" ->
           IF ~dec.isMap THEN log_action(st, "decisions", "failed", col)
           ELSE LET s1 == log_action(st, "decisions", "splitting", col)
                IN  IF ~IsSeries(df, col)
                    THEN log_action(s1, "decisions", "failed", col)
                    ELSE InPlace(s1, AddSplitColumns(df, col,
                                         SplitParts(Col(df, col).cells, ";"), 1))
      [] action = "drop" ->
           InPlace(log_action(st, "decisions", "dropping", col), DropCol(df, col))
      [] OTHER -> log_action(st, "decisions", "unknown", col)

RECURSIVE convert_columns(_, _)
\* DataProcessor.convert_columns
convert_columns(st, decisions) ==
    IF decisions = << >> THEN st
    ELSE convert_columns(ConvertColumn(st, decisions[1].column, decisions[1].decision),
                         Tail(decisions))

-----------------------------------------------------------------------------
(* Inputs *)

Sections == {"schema_mapping", "imputation", "outlier_detection", "rules", "outliers"}

Imputation(method, delete) ==
    [hasMethod |-> method # "", method |-> method, delete_null_rows |-> delete,
     column_specific |-> [c \in {} |-> ""], knn_neighbors |-> DefaultNeighbors]

OutlierDetection(enabled, action) ==
    [enabled |-> enabled, method |-> "iqr", threshold |-> Num(0, 1), action |-> action]

Rule(fields, column, condition, value, action) ==
    [hasColumn |-> "column" \in fields, hasCondition |-> "condition" \in fields,
     hasAction |-> "action" \in fields, column |-> column, condition |-> condition,
     value |-> value, action |-> action]

RuleFields == {"column", "condition", "action"}

Rules(enabled, custom_rules) == [enabled |-> enabled, custom_rules |-> custom_rules]

Map(from, to) == [from |-> from, to |-> to]

SchemaOptions ==
    { << >>,
      <<Map("a", "t")>>,
      <<Map("a", "b")>>,
      <<Map("a", "t"), Map("b", "t")>> }

ImputationOptions ==
    { Imputation("mean", FALSE), Imputation("median", FALSE), Imputation("mean", TRUE) }

OutlierOptions ==
    { OutlierDetection(FALSE, "remove"), OutlierDetection(TRUE, "remove"),
      OutlierDetection(TRUE, "flag") }

RuleOptions ==
    { Rules(FALSE, << >>),
      Rules(TRUE, <<Rule(RuleFields, "a", "greater_than", Str("1"), "remove")>>),
      Rules(TRUE, <<Rule(RuleFields, "a", "greater_than", Str("abc"), "remove"),
                    Rule(RuleFields, "b", "is_null", Str(""), "flag")>>),
      Rules(TRUE, <<Rule({"condition", "action"}, "", "is_null", Str(""), "remove"),
                    Rule(RuleFields, "a", "is_null", Str(""), "remove")>>) }

DpOutlierOptions == { [method |-> "iqr", action |-> "cap"],
                      [method |-> "iqr", action |-> "remove"] }

Config(has, sm, imp, od, ru, ol) ==
    [has |-> has, schema_mapping |-> sm, imputation |-> imp,
     outlier_detection |-> od, rules |-> ru, outliers |-> ol]

DefaultConfig(has) ==
    Config(has, <<Map("a", "t")>>, Imputation("mean", FALSE),
           OutlierDetection(TRUE, "remove"),
           Rules(TRUE, <<Rule(RuleFields, "a", "greater_than", Str("1"), "remove")>>),
           [method |-> "iqr", action |-> "cap"])

\* the configurations of a request: every section varied alone, and the
\* configurations that leave sections out
Configs ==
    {[DefaultConfig(Sections) EXCEPT !.schema_mapping = x] : x \in SchemaOptions}
    \cup {[DefaultConfig(Sections) EXCEPT !.imputation = x] : x \in ImputationOptions}
    \cup {[DefaultConfig(Sections) EXCEPT !.outlier_detection = x] : x \in OutlierOptions}
    \cup {[DefaultConfig(Sections) EXCEPT !.rules = x] : x \in RuleOptions}
    \cup {[DefaultConfig(Sections) EXCEPT !.outliers = x] : x \in DpOutlierOptions}
    \cup {DefaultConfig(Sections \ {x}) : x \in Sections}
    \cup {DefaultConfig({})}

Item(column, decision) == [column |-> column, decision |-> decision]

\* the column decision maps of a request, as the sequences of their items
DecisionMaps ==
    { << >>,
      <<Item("b", Decision(TRUE, TRUE, "convert_to_numeric", FALSE))>>,
      <<Item("a", Decision(TRUE, TRUE, "split_column", FALSE)),
        Item("b", Decision(TRUE, TRUE, "split_column", TRUE))>>,
      <<Item("b", Decision(TRUE, FALSE, "", FALSE)),
        Item("a", Decision(TRUE, TRUE, "convert_to_date", FALSE))>>,
      <<Item("b", Decision(FALSE, FALSE, "convert_to_numeric", FALSE))>>,
      <<Item("b", Decision(TRUE, TRUE, "keep_as_text", FALSE))>>,
      <<Item("t", Decision(TRUE, FALSE, "", FALSE))>>,
      <<Item("b", Decision(FALSE, FALSE, "to_numeric", FALSE)),
        Item("a", Decision(TRUE, TRUE, "drop", FALSE))>>,
      <<Item("a", Decision(FALSE, FALSE, "split", FALSE)),
        Item("b", Decision(TRUE, TRUE, "split", FALSE))>> }

NumCells == {NaN, Num(1, 1), Num(2, 1)}

\* a table as read from a file: n rows, index 0..n-1, a numeric column "a"
\* and a text column "b"
Table(n, acells, bnan) ==
    [idx  |-> [r \in 1..n |-> r - 1],
     cols |-> <<Column("a", "number", acells),
                Column("b", "object",
                       [r \in 1..n |-> IF r = n /\ bnan THEN NaN
                                       ELSE Str(TextPool[((r - 1) % Len(TextPool)) + 1])])>>]

InputTables ==
    UNION {{Table(n, acells, bnan) : acells \in [1..n -> NumCells], bnan \in BOOLEAN} :
           n \in 1..MaxRows}

EmptyTable == [idx |-> << >>, cols |-> << >>]

EmptyDict == [c \in {} |-> 0]

-----------------------------------------------------------------------------
(* State *)

VARIABLES
    variant,                 \* which program runs: "app", "dp" or "bound"
    pc,                      \* the position of the run
    upload,                  \* the request's file: "ok", "none" or "unreadable"
    config,                  \* the configuration of the request
    column_decisions,        \* the column decision map of the request
    caller_df,               \* the table object the caller passed
    df,                      \* self.df
    aliased,                 \* self.df is the caller's object
    original_df,             \* self.original_df
    audit_trail,             \* self.audit_trail / self.logs
    exc,                     \* the exception that left the last call, if any
    mixed_columns_decisions, \* self.mixed_columns_decisions
    missing_before,          \* locals of process()
    missing_after,
    outliers_detected,
    rules_applied,
    processing_summary,      \* the summary process() returns
    response,                \* what the request returns
    stages_run,              \* the stages called so far, in call order
    analysis,                \* what the last call of the column analyzer returned
    SKLEARN_AVAILABLE,       \* sklearn.impute can be imported in this runtime
    uuids,                   \* how many uuid4 values have been drawn; the n-th is n
    CLEANED_FOLDER           \* the files of the folder of cleaned tables

vars == <<variant, pc, upload, config, column_decisions, caller_df, df, aliased,
          original_df, audit_trail, exc, mixed_columns_decisions, missing_before,
          missing_after, outliers_detected, rules_applied, processing_summary,
          response, stages_run, analysis, SKLEARN_AVAILABLE, uuids, CLEANED_FOLDER>>

\* the request's inputs, the result of the column analyzer and the runtime
request == <<variant, upload, config, column_decisions, analysis, SKLEARN_AVAILABLE>>

\* what no stage of a processing run changes
inputs == <<request, uuids, CLEANED_FOLDER>>

St == [df |-> df, caller |-> caller_df, aliased |-> aliased, trail |-> audit_trail,
       exc |-> exc, mb |-> missing_before, ma |-> missing_after,
       od |-> outliers_detected, ra |-> rules_applied, sklearn |-> SKLEARN_AVAILABLE]

Commit(s) ==
    /\ df' = s.df
    /\ caller_df' = s.caller
    /\ aliased' = s.aliased
    /\ audit_trail' = s.trail
    /\ exc' = s.exc
    /\ missing_before' = s.mb
    /\ missing_after' = s.ma
    /\ outliers_detected' = s.od
    /\ rules_applied' = s.ra

NoSummary ==
    [rows_original |-> 0, rows_cleaned |-> 0, columns |-> 0,
     missing_values_before |-> EmptyDict, missing_values_after |-> EmptyDict,
     outliers_detected |-> 0, rules_applied |-> 0]

\* no call of the column analyzer yet
NoAnalysis ==
    [called |-> FALSE, null |-> TRUE, column_name |-> "", sample_values |-> << >>,
     analysis |-> [numeric_ratio |-> NaN, text_ratio |-> NaN,
                   date_ratio |-> NaN, mixed_ratio |-> NaN],
     suggestions |-> << >>]

NoResponse == [kind |-> "none", status |-> 0, fields |-> {}, cause |-> NoExc]

SuccessFields ==
    {"version_id", "original_filename", "cleaned_filename", "summary", "audit_trail",
     "download_url", "report_url", "charts_generated"}

\* jsonify({...}) of the success branch of process_with_decisions
SuccessResponse ==
    [kind |-> "success", status |-> 200, fields |-> SuccessFields, cause |-> NoExc]

\* jsonify({"error": ...}), status
ErrorResponse(status, cause) ==
    [kind |-> "error", status |-> status, fields |-> {"error"}, cause |-> cause]

InitWith(v, u, t, c, d) ==
    /\ variant = v
    /\ upload = u
    /\ caller_df = t
    /\ config = c
    /\ column_decisions = d
    /\ pc = "new"
    /\ df = EmptyTable
    /\ aliased = FALSE
    /\ original_df = EmptyTable
    /\ audit_trail = << >>
    /\ exc = NoExc
    /\ mixed_columns_decisions = << >>
    /\ missing_before = EmptyDict
    /\ missing_after = EmptyDict
    /\ outliers_detected = 0
    /\ rules_applied = 0
    /\ processing_summary = NoSummary
    /\ response = NoResponse
    /\ stages_run = << >>
    /\ analysis = NoAnalysis
    /\ SKLEARN_AVAILABLE = TRUE
    /\ uuids = 0
    /\ CLEANED_FOLDER = {}

\* a request to app.py, or a call of data_processor.DataProcessor.process()
Init ==
    \E v \in {"app", "dp"}, t \in InputTables, c \in Configs, d \in DecisionMaps,
       u \in {"ok", "none", "unreadable"} :
        /\ u # "ok" => v = "app" /\ c = DefaultConfig(Sections) /\ d = << >>
        /\ InitWith(v, u, t, c, d)

\* a request to app.py with the stage functions resolved
InitStages ==
    \E t \in InputTables, c \in Configs, d \in DecisionMaps :
        InitWith("bound", "ok", t, c, d)

-----------------------------------------------------------------------------
(* The request /process-with-decisions and DataProcessor.process(), app.py *)

IsApp == variant \in {"app", "bound"}

\* a file of the cleaned folder: its name, as the parts an underscore joins,
\* and the table written to it
File(name, content) == [name |-> name, content |-> content]

\* str(uuid.uuid4()) of the n-th draw: no two draws give the same value
uuid4(n) == ToString(n)

\* the names of uploaded files
Filename == "f.csv"

\* f"cleaned_{processor.version_id}_{filename}"
CleanedName(version_id) == <<"cleaned", version_id, Filename>>

\* f"refined_{processor.version_id}_{cleaned_files[0]}"
RefinedName(version_id, cleaned_file) == <<"refined", version_id>> \o cleaned_file

\* DataFrame.to_csv(path, index=False): the index is not written and a date
\* is written as text
to_csv(t) ==
    [idx  |-> [r \in 1..NRows(t) |-> r - 1],
     cols |-> [i \in 1..Len(t.cols) |->
                 [t.cols[i] EXCEPT !.cells = [r \in 1..NRows(t) |->
                     IF t.cols[i].cells[r].k = "date" THEN Str(t.cols[i].cells[r].s)
                     ELSE t.cols[i].cells[r]]]]]

\* the request reads its file and constructs the processor; the dp caller
\* constructs the processor
Construct ==
    /\ pc = "new"
    /\ IF IsApp /\ upload = "none"
       THEN /\ response' = ErrorResponse(400, NoExc)
            /\ pc' = "done"
            /\ UNCHANGED <<df, aliased, original_df, exc>>
       ELSE IF IsApp /\ upload = "unreadable"
       THEN /\ exc' = [type |-> "ParserError", at |-> "read"]
            /\ pc' = "respond"
            /\ UNCHANGED <<df, aliased, original_df, response>>
       ELSE /\ df' = DfCopy(caller_df).df
            /\ aliased' = DfCopy(caller_df).aliased
            /\ original_df' = caller_df
            /\ pc' = IF IsApp THEN "route" ELSE "schema"
            /\ UNCHANGED <<exc, response>>
    /\ uuids' = IF IsApp /\ upload = "ok" THEN uuids + 1 ELSE uuids
    /\ UNCHANGED <<request, CLEANED_FOLDER, caller_df, audit_trail, mixed_columns_decisions,
                   missing_before, missing_after, outliers_detected, rules_applied,
                   processing_summary, stages_run>>

\* process_with_decisions: if column_decisions:
\*     processor.apply_column_decisions(column_decisions)
RouteDecisions ==
    /\ pc = "route"
    /\ IF column_decisions = << >>
       THEN /\ pc' = "schema"
            /\ UNCHANGED <<df, caller_df, aliased, audit_trail, exc,
                           mixed_columns_decisions, missing_before, missing_after,
                           outliers_detected, rules_applied, stages_run>>
       ELSE LET s == apply_column_decisions(St, column_decisions)
            IN  /\ Commit(s)
                /\ stages_run' = Append(stages_run, "decisions")
                /\ mixed_columns_decisions' =
                       IF s.exc = NoExc THEN column_decisions
                       ELSE mixed_columns_decisions
                /\ pc' = IF s.exc = NoExc THEN "schema" ELSE "respond"
    /\ UNCHANGED <<inputs, original_df, processing_summary, response>>

\* the attributes of a DataProcessor object of app.py: the methods of the
\* class body, lines 136-673
Methods ==
    {"log_action", "detect_mixed_columns", "apply_column_decisions",
     "generate_comprehensive_charts", "generate_pdf_report", "create_database",
     "execute_sql_query", "generate_visualization", "get_column_info",
     "handle_missing_values", "process"}

\* self.<name> resolves
Resolves(name) == variant = "bound" \/ name \in Methods

\* process(): the start entry, then self.apply_schema_mapping()
SchemaMapping ==
    /\ pc = "schema"
    /\ IsApp
    /\ LET s0 == log_action(St, "start", "started", "")
       IN  IF ~Resolves("apply_schema_mapping")
           THEN /\ Commit(Raise(s0, "AttributeError", "process"))
                /\ pc' = "respond"
                /\ UNCHANGED stages_run
           ELSE /\ Commit(apply_schema_mapping(s0, config))
                /\ pc' = "decisions"
                /\ stages_run' = Append(stages_run, "schema")
    /\ UNCHANGED <<inputs, original_df, mixed_columns_decisions, processing_summary,
                   response>>

\* process(): if self.mixed_columns_decisions:
\*     self.apply_column_decisions(self.mixed_columns_decisions)
ProcessDecisions ==
    /\ pc = "decisions"
    /\ IsApp
    /\ IF mixed_columns_decisions = << >>
       THEN /\ pc' = "missing"
            /\ UNCHANGED <<df, caller_df, aliased, audit_trail, exc, missing_before,
                           missing_after, outliers_detected, rules_applied, stages_run>>
       ELSE LET s == apply_column_decisions(St, mixed_columns_decisions)
            IN  /\ Commit(s)
                /\ stages_run' = Append(stages_run, "decisions")
                /\ pc' = IF s.exc = NoExc THEN "missing" ELSE "respond"
    /\ UNCHANGED <<inputs, original_df, mixed_columns_decisions, processing_summary,
                   response>>

\* process(): missing_before, missing_after = self.handle_missing_values()
HandleMissing ==
    /\ pc = "missing"
    /\ IsApp
    /\ LET s == handle_missing_values(St, config)
       IN  /\ Commit(s)
           /\ pc' = IF s.exc = NoExc THEN "outliers" ELSE "respond"
    /\ stages_run' = Append(stages_run, "missing")
    /\ UNCHANGED <<inputs, original_df, mixed_columns_decisions, processing_summary,
                   response>>

\* process(): outliers_detected = self.detect_outliers()
DetectOutliers ==
    /\ pc = "outliers"
    /\ IsApp
    /\ IF ~Resolves("detect_outliers")
       THEN /\ Commit(Raise(St, "AttributeError", "process"))
            /\ pc' = "respond"
            /\ UNCHANGED stages_run
       ELSE LET s == detect_outliers(St, config)
            IN  /\ Commit(s)
                /\ pc' = IF s.exc = NoExc THEN "rules" ELSE "respond"
                /\ stages_run' = Append(stages_run, "outliers")
    /\ UNCHANGED <<inputs, original_df, mixed_columns_decisions, processing_summary,
                   response>>

\* process(): rules_applied = self.apply_rules()
ApplyRulesStage ==
    /\ pc = "rules"
    /\ IsApp
    /\ IF ~Resolves("apply_rules")
       THEN /\ Commit(Raise(St, "AttributeError", "process"))
            /\ pc' = "respond"
            /\ UNCHANGED stages_run
       ELSE LET s == apply_rules(St, config)
            IN  /\ Commit(s)
                /\ pc' = IF s.exc = NoExc THEN "summary" ELSE "respond"
                /\ stages_run' = Append(stages_run, "rules")
    /\ UNCHANGED <<inputs, original_df, mixed_columns_decisions, processing_summary,
                   response>>

\* the entries of a dict whose count is positive
Positive(d) == [nm \in {x \in DOMAIN d : d[x] > 0} |-> d[nm]]

\* process(): the final statistics, self.processing_summary, the last entry
Summarize ==
    /\ pc = "summary"
    /\ IsApp
    /\ processing_summary' =
           [rows_original |-> NRows(original_df),
            rows_cleaned |-> NRows(df),
            columns |-> Len(df.cols),
            missing_values_before |-> Positive(missing_before),
            missing_values_after |-> Positive(missing_after),
            outliers_detected |-> outliers_detected,
            rules_applied |-> rules_applied]
    /\ audit_trail' = Append(audit_trail, Entry("end", "complete", ""))
    /\ pc' = "respond"
    /\ UNCHANGED <<inputs, caller_df, df, aliased, original_df, exc,
                   mixed_columns_decisions, missing_before, missing_after,
                   outliers_detected, rules_applied, response, stages_run>>

\* process_with_decisions: the report and the cleaned file are written and
\* the success payload returned; any exception of the try block returns the
\* error payload
Respond ==
    /\ pc = "respond"
    /\ IsApp
    /\ \E written \in BOOLEAN :
          /\ exc # NoExc => written
          /\ IF exc # NoExc
             THEN response' = ErrorResponse(500, exc) /\ UNCHANGED exc
             ELSE IF written
             THEN response' = SuccessResponse /\ UNCHANGED exc
             ELSE /\ exc' = [type |-> "OSError", at |-> "write"]
                  /\ response' = ErrorResponse(500, exc')
          /\ CLEANED_FOLDER' =
                IF exc = NoExc /\ written
                THEN CLEANED_FOLDER \cup {File(CleanedName(uuid4(uuids)), to_csv(df))}
                ELSE CLEANED_FOLDER
    /\ pc' = "done"
    /\ UNCHANGED <<request, uuids, caller_df, df, aliased, original_df, audit_trail,
                   mixed_columns_decisions, missing_before, missing_after,
                   outliers_detected, rules_applied, processing_summary, stages_run>>

-----------------------------------------------------------------------------
(* DataProcessor.process(), data_processor.py *)

\* the start entry, then self.apply_schema_mapping()
DpSchemaMapping ==
    /\ pc = "schema"
    /\ variant = "dp"
    /\ Commit(dp_apply_schema_mapping(log_action(St, "start", "started", ""), config))
    /\ stages_run' = Append(stages_run, "schema")
    /\ pc' = "decisions"
    /\ UNCHANGED <<inputs, original_df, mixed_columns_decisions, processing_summary,
                   response>>

\* self.convert_columns()
DpConvertColumns ==
    /\ pc = "decisions"
    /\ variant = "dp"
    /\ Commit(convert_columns(St, column_decisions))
    /\ stages_run' = Append(stages_run, "decisions")
    /\ pc' = "missing"
    /\ UNCHANGED <<inputs, original_df, mixed_columns_decisions, processing_summary,
                   response>>

\* self.handle_missing_values()
DpHandleMissing ==
    /\ pc = "missing"
    /\ variant = "dp"
    /\ Commit(dp_handle_missing_values(St, config))
    /\ stages_run' = Append(stages_run, "missing")
    /\ pc' = "outliers"
    /\ UNCHANGED <<inputs, original_df, mixed_columns_decisions, processing_summary,
                   response>>

\* self.detect_outliers()
DpDetectOutliers ==
    /\ pc = "outliers"
    /\ variant = "dp"
    /\ Commit(dp_detect_outliers(St, config))
    /\ stages_run' = Append(stages_run, "outliers")
    /\ pc' = "finish"
    /\ UNCHANGED <<inputs, original_df, mixed_columns_decisions, processing_summary,
                   response>>

DpResultFields == {"cleaned_path", "report_path", "summary", "logs"}

\* generate_summary(), save_cleaned(), generate_report() and the return;
\* a failed write is logged by save_cleaned and by process(), and raised
DpFinish ==
    /\ pc = "finish"
    /\ variant = "dp"
    /\ \E written \in BOOLEAN :
          IF written
          THEN /\ audit_trail' = audit_trail \o <<Entry("end", "saved", ""),
                                                  Entry("end", "report", "")>>
               /\ response' = [kind |-> "returned", status |-> 0,
                               fields |-> DpResultFields, cause |-> NoExc]
               /\ UNCHANGED exc
          ELSE /\ audit_trail' = audit_trail \o <<Entry("end", "save_error", ""),
                                                  Entry("end", "fatal", "")>>
               /\ exc' = [type |-> "OSError", at |-> "write"]
               /\ response' = [kind |-> "raised", status |-> 0, fields |-> {},
                               cause |-> exc']
    /\ pc' = "done"
    /\ UNCHANGED <<inputs, caller_df, df, aliased, original_df,
                   mixed_columns_decisions, missing_before, missing_after,
                   outliers_detected, rules_applied, processing_summary, stages_run>>

-----------------------------------------------------------------------------
(* Specifications *)

\* app.py as written, and data_processor.py
Next ==
    \/ Construct
    \/ RouteDecisions
    \/ SchemaMapping
    \/ Respond
    \/ DpSchemaMapping
    \/ DpConvertColumns
    \/ DpHandleMissing
    \/ DpDetectOutliers
    \/ DpFinish

Spec == Init /\ [][Next]_vars

\* app.py with the stage functions resolved
NextStages ==
    \/ Construct
    \/ RouteDecisions
    \/ SchemaMapping
    \/ ProcessDecisions
    \/ HandleMissing
    \/ DetectOutliers
    \/ ApplyRulesStage
    \/ Summarize
    \/ Respond

SpecStages == InitStages /\ [][NextStages]_vars

-----------------------------------------------------------------------------
(* Properties of a run *)

PipelineStages == <<"schema", "decisions", "missing", "outliers", "rules">>

\* the place of a stage in the pipeline order
StageRank(stage) == CHOOSE i \in 1..Len(PipelineStages) : PipelineStages[i] = stage

\* process() has been entered: its first statement logs the start entry
ProcessEntered == \E i \in 1..Len(audit_trail) : audit_trail[i].stage = "start"

\* process() has ended, by a return or by an exception
ProcessEnded == ProcessEntered /\ pc \in {"respond", "done"}

ValidRule(rule) ==
    /\ rule.hasColumn /\ rule.hasCondition /\ rule.hasAction
    /\ rule.condition \in {"greater_than", "less_than"} => float(rule.value).k = "num"

\* all four sections are present and hold valid values
ValidConfig(c) ==
    /\ {"schema_mapping", "imputation", "outlier_detection", "rules"} \subseteq c.has
    /\ c.imputation.hasMethod
    /\ \A i \in 1..Len(c.rules.custom_rules) : ValidRule(c.rules.custom_rules[i])

\* C1: in every run the stages are called in the order schema mapping, column
\* decisions, missing values, outliers, rules, and no column decision is
\* applied before schema mapping has run
C1_StageOrder ==
    \A i \in 1..Len(stages_run) :
        /\ \A j \in 1..(i - 1) : StageRank(stages_run[j]) < StageRank(stages_run[i])
        /\ stages_run[i] = "decisions" => \E j \in 1..(i - 1) : stages_run[j] = "schema"

\* C2: for a readable table and a configuration with all four sections and
\* valid values, process() of app.py runs schema mapping, missing values,
\* outliers and rules to completion and returns the processing summary
C2_ProcessCompletes ==
    (variant = "app" /\ ProcessEnded /\ ValidConfig(config)) =>
        /\ {"schema", "missing", "outliers", "rules"} \subseteq Range(stages_run)
        /\ processing_summary # NoSummary
        /\ exc.at # "process"

\* C3: no step of a run changes the table the caller passed
C3_CallerTableUnchanged == [][caller_df' = caller_df]_vars

\* a finished run whose stages changed the processor's own table
C3_Witness ==
    /\ pc = "done"
    /\ Len(stages_run) > 1
    /\ df # caller_df
    /\ original_df = caller_df

\* the entries of the pipeline stages are in the order of the stages
TrailInStageOrder(trail) ==
    \A i, j \in 1..Len(trail) :
        (i < j /\ trail[i].stage \in Range(PipelineStages)
               /\ trail[j].stage \in Range(PipelineStages)) =>
            StageRank(trail[i].stage) <= StageRank(trail[j].stage)

NamesDistinct(t) ==
    \A i, j \in 1..Len(t.cols) : t.cols[i].name = t.cols[j].name => i = j

\* C5: after schema mapping the column names of the table are pairwise
\* distinct
C5_NamesDistinctAfterMapping ==
    (pc = "decisions" /\ Has(config, "schema_mapping")) => NamesDistinct(df)

\* C6: applying a column decision map never raises, whatever the decisions
\* are
C6_DecisionsNeverRaise == exc.at # "apply_column_decisions"

\* C7: applying the rule list of a configuration never raises, whatever the
\* rule records are
C7_RulesNeverRaise == Has(config, "rules") => exc.at # "apply_rules"

\* the section a stage reads
SectionOf(stage) ==
    CASE stage = "handle_missing_values" -> "imputation"
      [] stage = "detect_outliers" -> "outlier_detection"
      [] stage = "apply_rules" -> "rules"
      [] OTHER -> "schema_mapping"

StageFunctions == {"apply_schema_mapping", "handle_missing_values", "detect_outliers",
                   "apply_rules"}

\* C8: a run whose configuration omits sections does not fail: no stage
\* raises because its section is absent
C8_OmittedSectionsDefault ==
    \A stage \in StageFunctions :
        ~Has(config, SectionOf(stage)) => exc.at # stage

\* a failure of one column decision or of one rule record
PerUnitFailure(cause) ==
    \/ cause.at = "apply_column_decisions"
    \/ cause.at = "apply_rules" /\ Has(config, "rules")

\* C9: a request ends with the success payload (summary, audit trail and
\* download handle together, no error) or with a payload that holds only an
\* error message, and no failure of a single column or rule is returned as
\* an error
C9_SuccessOrSingleError ==
    (IsApp /\ pc = "done") =>
        /\ \/ /\ response.kind = "success"
              /\ {"summary", "audit_trail", "download_url"} \subseteq response.fields
              /\ "error" \notin response.fields
           \/ /\ response.kind = "error"
              /\ response.fields = {"error"}
        /\ response.kind = "error" => ~PerUnitFailure(response.cause)

-----------------------------------------------------------------------------
(* Imputation on its own: handle_missing_values called on a table *)

\* Largest number of rows of a table handed to handle_missing_values.
MaxCells == 4

ImputeCells == {NaN, Num(1, 1), Num(2, 1), Num(6, 1)}

\* a valid table with n rows: the numeric columns "a" and "c" and the text
\* column "b"
ImputeTable(n, acells) ==
    [idx  |-> [r \in 1..n |-> r - 1],
     cols |-> <<Column("a", "number", acells),
                Column("b", "object",
                       [r \in 1..n |-> IF r = n THEN NaN ELSE Str("x;y")]),
                Column("c", "number",
                       [r \in 1..n |-> IF r % 2 = 1 THEN NaN ELSE Num(r, 1)])>>]

ImputeTables ==
    UNION {{ImputeTable(n, acells) : acells \in [1..n -> ImputeCells]} : n \in 1..MaxCells}

\* the imputation sections in use: a method, with or without an override for
\* column "c", with or without delete_null_rows
ImputeSections ==
    {[hasMethod |-> TRUE, method |-> m, delete_null_rows |-> del, column_specific |-> cs,
      knn_neighbors |-> DefaultNeighbors] :
        m \in {"mean", "median"}, del \in BOOLEAN,
        cs \in {[c \in {} |-> ""], [c \in {"c"} |-> "mean"], [c \in {"c"} |-> "median"],
                [c \in {"c"} |-> ""]}}

InitMissing ==
    \E v \in {"app", "dp"}, t \in ImputeTables, imp \in ImputeSections :
        /\ variant = v
        /\ upload = "ok"
        /\ caller_df = t
        /\ config = [DefaultConfig(Sections) EXCEPT !.imputation = imp]
        /\ column_decisions = << >>
        /\ pc = "missing"
        /\ df = t
        /\ aliased = FALSE
        /\ original_df = t
        /\ audit_trail = << >>
        /\ exc = NoExc
        /\ mixed_columns_decisions = << >>
        /\ missing_before = EmptyDict
        /\ missing_after = EmptyDict
        /\ outliers_detected = 0
        /\ rules_applied = 0
        /\ processing_summary = NoSummary
        /\ response = NoResponse
        /\ stages_run = << >>
    /\ analysis = NoAnalysis
    /\ SKLEARN_AVAILABLE = TRUE
    /\ uuids = 0
    /\ CLEANED_FOLDER = {}

NextMissing ==
    \/ HandleMissing
    \/ DpHandleMissing

SpecMissing == InitMissing /\ [][NextMissing]_vars

\* the method in effect for a column: app.py lets column_specific override
\* the method and deletes rows instead when delete_null_rows is set;
\* data_processor.py reads the method only
EffectiveMethod(col) ==
    IF variant = "dp" THEN config.imputation.method
    ELSE IF config.imputation.delete_null_rows THEN "delete"
    ELSE IF HasOverride(config.imputation, col) THEN config.imputation.column_specific[col]
    ELSE config.imputation.method

Below(vals, x) == Cardinality({i \in 1..Len(vals) : RLess(vals[i], x)})

AtMost(vals, x) == Cardinality({i \in 1..Len(vals) : ~RLess(x, vals[i])})

\* v times the number of values is their sum
IsMean(v, vals) == v.k = "num" /\ RScale(v, Len(vals), 1) = RSum(vals)

\* v is the middle value, or the midpoint of the two middle values
IsMedian(v, vals) ==
    LET n == Len(vals)
        h == n \div 2
    IN  /\ v.k = "num"
        /\ IF n % 2 = 1
           THEN \E i \in 1..n : vals[i] = v /\ Below(vals, v) <= h /\ AtMost(vals, v) > h
           ELSE \E i, j \in 1..n :
                   /\ Below(vals, vals[i]) < h /\ AtMost(vals, vals[i]) >= h
                   /\ Below(vals, vals[j]) <= h /\ AtMost(vals, vals[j]) > h
                   /\ v = RScale(RAdd(vals[i], vals[j]), 1, 2)

IsStatistic(method, v, vals) ==
    IF method = "mean" THEN IsMean(v, vals) ELSE IsMedian(v, vals)

\* the column at position i has no missing cell after the step, its present
\* cells are kept and its missing cells hold the statistic of the present
Imputed(i, method) ==
    LET before == df.cols[i].cells
        after == df'.cols[i].cells
    IN  /\ Len(after) = Len(before)
        /\ \A r \in 1..Len(before) :
              IF isnull(before[r]) THEN IsStatistic(method, after[r], Present(before))
              ELSE after[r] = before[r]

\* the numeric columns the claim is about: a mean or median method in
\* effect and at least one missing cell
ImputeTargets ==
    {i \in NumericPositions(df) :
        /\ EffectiveMethod(df.cols[i].name) \in {"mean", "median"}
        /\ MissingCount(df.cols[i]) > 0}

-----------------------------------------------------------------------------
(* Stages on their own: one stage function called on a table *)

\* the state in which processor v is about to call the stage at position p
\* on table t with configuration c
StageInit(v, p, t, c) ==
    /\ variant = v
    /\ upload = "ok"
    /\ caller_df = t
    /\ config = c
    /\ column_decisions = << >>
    /\ pc = p
    /\ df = t
    /\ aliased = FALSE
    /\ original_df = t
    /\ audit_trail = << >>
    /\ exc = NoExc
    /\ mixed_columns_decisions = << >>
    /\ missing_before = EmptyDict
    /\ missing_after = EmptyDict
    /\ outliers_detected = 0
    /\ rules_applied = 0
    /\ processing_summary = NoSummary
    /\ response = NoResponse
    /\ stages_run = << >>
    /\ analysis = NoAnalysis
    /\ SKLEARN_AVAILABLE = TRUE
    /\ uuids = 0
    /\ CLEANED_FOLDER = {}

\* a table with n rows: the numeric column "a" and the text column "b"
TwoColumnTable(n, acells, bcells) ==
    [idx  |-> [r \in 1..n |-> r - 1],
     cols |-> <<Column("a", "number", acells), Column("b", "object", bcells)>>]

DeleteTables ==
    UNION {{TwoColumnTable(n, acells, bcells) :
               acells \in [1..n -> {NaN, Num(1, 1), Num(2, 1)}],
               bcells \in [1..n -> {NaN, Str("A1")}]} : n \in 1..MaxCells}

\* handle_missing_values of app.py with delete_null_rows set
InitDelete ==
    \E t \in DeleteTables, m \in {"mean", "median"} :
        StageInit("app", "missing", t,
                  [DefaultConfig(Sections) EXCEPT !.imputation = Imputation(m, TRUE)])

NextDelete == HandleMissing

SpecDelete == InitDelete /\ [][NextDelete]_vars

\* row r of table t has no missing cell
Complete(t, r) == \A i \in 1..Len(t.cols) : ~isnull(t.cols[i].cells[r])

\* row r2 of table t2 is row r1 of table t1: same label, same cells
SameRow(t1, r1, t2, r2) ==
    /\ t2.idx[r2] = t1.idx[r1]
    /\ \A i \in 1..Len(t1.cols) : t2.cols[i].cells[r2] = t1.cols[i].cells[r1]

\* table t2 is table t1 restricted to the rows in keep: the same columns,
\* exactly the rows of keep, each unchanged, in their original order
ExactlyRows(t1, t2, keep) ==
    /\ columns(t2) = columns(t1)
    /\ NRows(t2) = Cardinality(keep)
    /\ \A i \in 1..Len(t2.cols) : Len(t2.cols[i].cells) = NRows(t2)
    /\ \A r1 \in keep : \E r2 \in 1..NRows(t2) : SameRow(t1, r1, t2, r2)
    /\ \A r2 \in 1..NRows(t2) : \E r1 \in keep : SameRow(t1, r1, t2, r2)
    /\ \A r, q \in 1..NRows(t2) : r < q => t2.idx[r] < t2.idx[q]

\* C11: with delete_null_rows set, handle_missing_values removes exactly the
\* rows with a missing cell in any column; the surviving rows are unchanged
\* and in order, no missing cell remains and nothing is imputed
C11_DeleteNullRows ==
    [][(pc = "missing" /\ config.imputation.delete_null_rows) =>
          /\ ExactlyRows(df, df', {r \in 1..NRows(df) : Complete(df, r)})
          /\ \A r \in 1..NRows(df') : Complete(df', r)
          /\ \A nm \in DOMAIN missing_after' : missing_after'[nm] = 0
          /\ exc' = NoExc]_vars

\* rows were deleted, one of them for a missing text cell only, and two rows
\* on either side of a deleted row survive
C11_Witness ==
    /\ pc = "outliers"
    /\ config.imputation.delete_null_rows
    /\ NRows(df) > 1
    /\ df.idx[1] + 1 < df.idx[2]
    /\ \E r \in 1..NRows(original_df) :
          /\ ~isnull(original_df.cols[1].cells[r])
          /\ isnull(original_df.cols[2].cells[r])

\* no imputation method is configured
ImputationDisabled(c) == ~Has(c, "imputation") \/ ~c.imputation.hasMethod

\* process() has returned its result
ProcessReturned ==
    IF variant = "dp" THEN response.kind = "returned"
    ELSE processing_summary # NoSummary

\* C12: when no imputation method is configured, process() returns a table
\* whose missing-value counts per column equal those of the input table
C12_DisabledImputationKeepsCounts ==
    (ImputationDisabled(config) /\ ProcessEnded /\ exc.at # "write") =>
        /\ ProcessReturned
        /\ MissingDict(df) = MissingDict(original_df)

-----------------------------------------------------------------------------
(* Outlier handling on its own *)

\* a table with n rows: the numeric columns "a" and "c" and, between them,
\* the text column "b"
OutlierTable(n, acells, ccells) ==
    [idx  |-> [r \in 1..n |-> r - 1],
     cols |-> <<Column("a", "number", acells),
                Column("b", "object", [r \in 1..n |-> Str("A1")]),
                Column("c", "number", ccells)>>]

OutlierTables ==
    UNION {{OutlierTable(n, acells, ccells) :
               acells \in [1..n -> {NaN, Num(1, 1), Num(6, 1)}],
               ccells \in [1..n -> {Num(1, 1), Num(6, 1)}]} : n \in 1..MaxCells}

\* outlier_detection {enabled, iqr, threshold 1.5, action} for app.py and
\* outliers {iqr, action} for data_processor.py
OutlierConfig(action) ==
    [DefaultConfig(Sections) EXCEPT
        !.outlier_detection = [enabled |-> TRUE, method |-> "iqr",
                               threshold |-> Num(3, 2), action |-> action],
        !.outliers = [method |-> "iqr", action |-> action]]

\* detect_outliers of app.py (lines 1031-1073) and of data_processor.py
\* called on a table
InitOutliers ==
    \E v \in {"bound", "dp"}, t \in OutlierTables, action \in {"remove", "cap", "flag"} :
        StageInit(v, "outliers", t, OutlierConfig(action))

NextOutliers ==
    \/ DetectOutliers
    \/ DpDetectOutliers

SpecOutliers == InitOutliers /\ [][NextOutliers]_vars

\* the configured action of the outlier stage of the running program
OutlierAction ==
    IF variant = "dp" THEN config.outliers.action ELSE config.outlier_detection.action

\* the cell c clamped to the bounds b; a missing cell stays missing
Clamped(c, b) ==
    IF c.k # "num" THEN c
    ELSE IF RLess(c, b.lower) THEN b.lower
    ELSE IF RLess(b.upper, c) THEN b.upper
    ELSE c

OutlierRows(t) ==
    {r \in 1..NRows(t) :
        \E i \in NumericPositions(t) :
            LET c == t.cols[i].cells[r]
                b == IqrBounds(t.cols[i].cells, 3, 2)
            IN  c.k = "num" /\ (RLess(c, b.lower) \/ RLess(b.upper, c))}

\* C14: with method iqr and action remove, detect_outliers removes exactly
\* the rows of its input table that hold a numeric value outside that
\* column's bounds, the bounds computed once per column on the input table;
\* the row count decreases by their number and every surviving value is
\* within its column's bounds
C14_IqrRemove ==
    [][(pc = "outliers" /\ OutlierAction = "remove") =>
          /\ ExactlyRows(df, df', (1..NRows(df)) \ OutlierRows(df))
          /\ NRows(df') = NRows(df) - Cardinality(OutlierRows(df))]_vars

-----------------------------------------------------------------------------
(* The rule engine on its own *)

\* Largest number of rows of a table handed to apply_rules.
MaxRuleRows == 5

\* a table with the numeric column "age" and the text column "b"
AgeTable(ages) ==
    [idx  |-> [r \in 1..Len(ages) |-> r - 1],
     cols |-> <<Column("age", "number", ages),
                Column("b", "object",
                       [r \in 1..Len(ages) |->
                           Str(TextPool[((r - 1) % Len(TextPool)) + 1])])>>]

\* the ages of the example of the specification
ExampleAges == <<Num(10, 1), Num(40, 1), Num(25, 1), Num(50, 1), Num(30, 1)>>

AgeTables ==
    {AgeTable(ExampleAges)} \cup
    UNION {{AgeTable(ages) : ages \in [1..n -> {NaN, Num(25, 1), Num(30, 1), Num(40, 1)}]} :
              n \in 1..MaxRuleRows}

\* rules {enabled, [{column: age, condition: greater_than, value, action:
\* remove}]}
GreaterThanConfig(value) ==
    [DefaultConfig(Sections) EXCEPT
        !.rules = Rules(TRUE, <<Rule(RuleFields, "age", "greater_than", value, "remove")>>)]

\* apply_rules of app.py (lines 1075-1128) called on a table
InitRules ==
    \E t \in AgeTables, value \in {Str("30"), Num(30, 1)} :
        StageInit("bound", "rules", t, GreaterThanConfig(value))

NextRules == ApplyRulesStage

SpecRules == InitRules /\ [][NextRules]_vars

\* the rows of table t whose age is present and strictly greater than 30
OlderRows(t) ==
    {r \in 1..NRows(t) :
        LET c == t.cols[1].cells[r] IN c.k = "num" /\ c.n > 30 * c.d}

\* C15: a greater_than rule with the numeric value 30 and action remove
\* removes exactly the rows whose value is strictly greater than 30; rows
\* with a value equal to or below 30 and rows with a missing value stay,
\* unchanged and in order
C15_GreaterThanRemove ==
    [][pc = "rules" =>
          /\ ExactlyRows(df, df', (1..NRows(df)) \ OlderRows(df))
          /\ exc' = NoExc]_vars

\* the example: ages 10, 40, 25, 50, 30 leave the rows 10, 25, 30
C15_Witness ==
    /\ pc = "summary"
    /\ original_df.cols[1].cells = ExampleAges
    /\ df.cols[1].cells = <<Num(10, 1), Num(25, 1), Num(30, 1)>>
    /\ df.idx = <<0, 2, 4>>
    /\ rules_applied = 1

-----------------------------------------------------------------------------
(* The column analyzer: DataAnalysisDecisionEngine.analyze_mixed_column and *)
(* DataProcessor.detect_mixed_columns of app.py.                            *)

\* head(20) of analyze_mixed_column
SampleSize == 20

\* sample_values[:10] of the returned dictionary
SampleShown == 10

\* head(50) of detect_mixed_columns
DetectSampleSize == 50

\* the cells of a column, the missing ones included
with_missing(cells) == cells

\* Series.dropna() on the cells of a column
dropna(cells) == Pick(cells, {i \in 1..Len(cells) : ~isnull(cells[i])})

\* Series.head(n)
head(cells, n) == SubSeq(cells, 1, IF Len(cells) < n THEN Len(cells) ELSE n)

\* the branch of the loop body that str(value).strip() takes: the regular
\* expressions r'^-?\d+\.?\d*$', r'\d{1,4}[-/]\d{1,2}[-/]\d{1,4}' and
\* r'^[A-Za-z0-9]+$' with a digit and a letter, tried in this order
value_class(str_val) ==
    CASE str_val \in {"7", "1", "1.0"} -> "numeric"
      [] str_val \in {"2020-01-02"} -> "date"
      [] str_val \in {"A1"} -> "mixed_alphanumeric"
      [] OTHER -> "text"

\* how many values of the sample take the branch class
class_count(sample_values, class) ==
    Cardinality({i \in 1..Len(sample_values) :
                    value_class(astype_str(sample_values[i])) = class})

\* count / total >= p / q
ReachesRatio(count, total, p, q) == count * q >= p * total

\* count / total > 0
Occurs(count, total, p, q) == count > 0

\* count / total > p / q, the comparison of a ratio with 0.8, 0.6 or 0.7
ExceedsRatio(count, total, p, q) == count * q > p * total

Suggestion(action, confidence) == [action |-> action, confidence |-> confidence]

\* the list suggestions, appended to in the order of lines 84-123
suggestions_for(numeric_count, date_count, mixed_alphanumeric, total_samples) ==
    (IF ExceedsRatio(numeric_count, total_samples, 4, 5)
     THEN <<Suggestion("convert_to_numeric", "high")>> ELSE << >>)
    \o (IF ExceedsRatio(date_count, total_samples, 3, 5)
        THEN <<Suggestion("convert_to_date", "high")>> ELSE << >>)
    \o (IF ExceedsRatio(mixed_alphanumeric, total_samples, 7, 10)
        THEN <<Suggestion("keep_as_categorical", "medium")>> ELSE << >>)
    \o <<Suggestion("keep_as_text", "safe")>>
    \o (IF mixed_alphanumeric > 0 /\ numeric_count > 0
        THEN <<Suggestion("split_column", "medium")>> ELSE << >>)

\* analyze_mixed_column(column_data, column_name); null is the return of None
analyze_mixed_column(column_data, column_name) ==
    LET sample_values == head(dropna(column_data), SampleSize)
        total_samples == Len(sample_values)
        numeric_count == class_count(sample_values, "numeric")
        date_count == class_count(sample_values, "date")
        mixed_alphanumeric == class_count(sample_values, "mixed_alphanumeric")
        text_count == class_count(sample_values, "text")
    IN  IF total_samples = 0
        THEN [NoAnalysis EXCEPT !.called = TRUE]
        ELSE [called |-> TRUE, null |-> FALSE, column_name |-> column_name,
              sample_values |-> head(sample_values, SampleShown),
              analysis |-> [numeric_ratio |-> Num(numeric_count, total_samples),
                            text_ratio |-> Num(text_count, total_samples),
                            date_ratio |-> Num(date_count, total_samples),
                            mixed_ratio |-> Num(mixed_alphanumeric, total_samples)],
              suggestions |-> suggestions_for(numeric_count, date_count,
                                              mixed_alphanumeric, total_samples)]

\* every text column with a value is reported, whatever its suggestions
detect_text_columns(t) ==
    LET reported == {i \in 1..Len(t.cols) :
                        /\ t.cols[i].dtype = "object"
                        /\ Len(dropna(t.cols[i].cells)) > 0}
    IN  Pick([i \in 1..Len(t.cols) |->
                 analyze_mixed_column(t.cols[i].cells, t.cols[i].name)], reported)

\* detect_mixed_columns(): the analyses appended to mixed_columns, in column
\* order.  The caller makes sure self.df[col] is a Series.
detect_mixed_columns(t) ==
    LET sample_data(i) == head(dropna(t.cols[i].cells), DetectSampleSize)
        found(i) == analyze_mixed_column(sample_data(i), t.cols[i].name)
        reported == {i \in 1..Len(t.cols) :
                        /\ t.cols[i].dtype = "object"
                        /\ Len(sample_data(i)) > 0
                        /\ ~found(i).null
                        /\ Len(found(i).suggestions) > 1}
    IN  Pick([i \in 1..Len(t.cols) |-> found(i)], reported)

\* jsonify({...}) of preview_data
PreviewResponse(mixed_columns) ==
    [kind |-> "preview", status |-> 200,
     fields |-> {"columns", "mixed_columns", "sample_rows", "total_rows",
                 "requires_decisions"},
     cause |-> NoExc,
     mixed_columns |-> mixed_columns,
     requires_decisions |-> Len(mixed_columns) > 0]

\* Longest column the analyzer is given.
MaxValues == 21

Repeat(c, n) == [i \in 1..n |-> c]

Reverse(s) == [i \in 1..Len(s) |-> s[Len(s) + 1 - i]]

\* a text column: runs of numeric strings, missing cells, dates, mixed
\* alphanumeric strings and other text
RunsColumn(numeric, missing, date, mixed, text) ==
    Repeat(Str("7"), numeric) \o Repeat(NaN, missing)
        \o Repeat(Str("2020-01-02"), date) \o Repeat(Str("A1"), mixed)
        \o Repeat(Str("x;y"), text)

AnalyzerColumns ==
    {IF rev THEN Reverse(RunsColumn(c[1], missing, c[2], c[3], c[4]))
            ELSE RunsColumn(c[1], missing, c[2], c[3], c[4]) :
        c \in {x \in [1..4 -> 0..MaxValues] : x[1] + x[2] + x[3] + x[4] <= MaxValues - 1},
        missing \in {0, 1}, rev \in BOOLEAN}
    \cup {RunsColumn(c[1], 0, c[2], c[3], c[4]) :
            c \in {x \in [1..4 -> 0..MaxValues] : x[1] + x[2] + x[3] + x[4] = MaxValues}}

\* a table as read from a file: the numeric column "a", the text column "b"
\* and the date column "d"
AnalyzerTable(bcells) ==
    [idx  |-> [r \in 1..Len(bcells) |-> r - 1],
     cols |-> <<Column("a", "number", Repeat(Num(1, 1), Len(bcells))),
                Column("b", "object", bcells),
                Column("d", "datetime", Repeat(Date("2020-01-02"), Len(bcells)))>>]

\* preview_data has read the file and built DataProcessor(df, {})
InitAnalyze ==
    \E bcells \in AnalyzerColumns :
        StageInit("app", "preview", AnalyzerTable(bcells), DefaultConfig({}))

\* DataAnalysisDecisionEngine.analyze_mixed_column(df["b"], "b")
AnalyzeColumn ==
    /\ pc = "preview"
    /\ analysis' = analyze_mixed_column(Col(df, "b").cells, "b")
    /\ pc' = "analyzed"
    /\ UNCHANGED <<variant, upload, config, column_decisions, caller_df, df, aliased,
                   original_df, audit_trail, exc, mixed_columns_decisions,
                   missing_before, missing_after, outliers_detected, rules_applied,
                   processing_summary, response, stages_run, SKLEARN_AVAILABLE,
                   uuids, CLEANED_FOLDER>>

\* preview_data from processor.detect_mixed_columns() to its return
PreviewData ==
    /\ pc = "preview"
    /\ IF \A i \in 1..Len(df.cols) : IsSeries(df, df.cols[i].name)
       THEN /\ response' = PreviewResponse(detect_mixed_columns(df))
            /\ UNCHANGED exc
       ELSE /\ exc' = [type |-> "AttributeError", at |-> "detect_mixed_columns"]
            /\ response' = ErrorResponse(500, exc')
    /\ pc' = "previewed"
    /\ UNCHANGED <<inputs, caller_df, df, aliased, original_df, audit_trail,
                   mixed_columns_decisions, missing_before, missing_after,
                   outliers_detected, rules_applied, processing_summary, stages_run>>

NextAnalyze == AnalyzeColumn \/ PreviewData

SpecAnalyze == InitAnalyze /\ [][NextAnalyze]_vars

\* the suggestions of the last analysis whose action is a
Suggested(a) == {k \in 1..Len(analysis.suggestions) : analysis.suggestions[k].action = a}

\* the first SampleSize non-missing values of column "b", as strings
SampleStrings ==
    LET cells == Col(df, "b").cells
        p == SelectIdx(Len(cells), {i \in 1..Len(cells) : cells[i].k = "str"})
    IN  [i \in 1..(IF Len(p) < SampleSize THEN Len(p) ELSE SampleSize) |-> cells[p[i]].s]

\* C16: analyze_mixed_column returns None exactly when the column has no
\* non-missing value, and every other result lists keep_as_text once, with
\* confidence safe.
C16_NullIffNoSample ==
    pc = "analyzed" =>
        /\ analysis.null <=> (\A r \in 1..NRows(df) : isnull(Col(df, "b").cells[r]))
        /\ ~analysis.null =>
              /\ Cardinality(Suggested("keep_as_text")) = 1
              /\ \A k \in Suggested("keep_as_text") :
                    analysis.suggestions[k].confidence = "safe"

\* a column with a missing cell whose analysis has three suggestions
C16_Witness ==
    /\ pc = "analyzed"
    /\ ~analysis.null
    /\ \E r \in 1..NRows(df) : isnull(Col(df, "b").cells[r])
    /\ Len(analysis.suggestions) = 3

\* how many values of the sample are the string str
Occurrences(str) ==
    Cardinality({i \in 1..Len(SampleStrings) : SampleStrings[i] = str})

\* the last analysis suggests action a with confidence c, once, and with no
\* other confidence
SuggestedAs(a, c) ==
    /\ Cardinality(Suggested(a)) = 1
    /\ \A k \in Suggested(a) : analysis.suggestions[k].confidence = c

\* C17: the suggestions are those of the strict thresholds 0.8, 0.6 and 0.7
\* on the ratios of the sample, keep_as_text, and split_column when the
\* sample has both a mixed alphanumeric and a numeric value; 16 numeric
\* values of 20 do not suggest convert_to_numeric, and an all-numeric sample
\* has numeric_ratio 1 and suggests it.
C17_StrictThresholds ==
    LET total == Len(SampleStrings)
        numeric == Occurrences("7")
        date == Occurrences("2020-01-02")
        mixed == Occurrences("A1")
        ratios == analysis.analysis
        expected ==
            {"keep_as_text"}
            \cup (IF RLess(Num(4, 5), ratios.numeric_ratio)
                  THEN {"convert_to_numeric"} ELSE {})
            \cup (IF RLess(Num(3, 5), ratios.date_ratio)
                  THEN {"convert_to_date"} ELSE {})
            \cup (IF RLess(Num(7, 10), ratios.mixed_ratio)
                  THEN {"keep_as_categorical"} ELSE {})
            \cup (IF mixed > 0 /\ numeric > 0 THEN {"split_column"} ELSE {})
        confidence ==
            [a \in expected |->
                CASE a \in {"convert_to_numeric", "convert_to_date"} -> "high"
                  [] a = "keep_as_text" -> "safe"
                  [] OTHER -> "medium"]
    IN  (pc = "analyzed" /\ ~analysis.null) =>
            /\ ratios.numeric_ratio = Num(numeric, total)
            /\ ratios.date_ratio = Num(date, total)
            /\ ratios.mixed_ratio = Num(mixed, total)
            /\ {analysis.suggestions[k].action : k \in 1..Len(analysis.suggestions)}
                  = expected
            /\ \A a \in expected : SuggestedAs(a, confidence[a])
            /\ (numeric = 16 /\ total = 20) => Suggested("convert_to_numeric") = {}
            /\ numeric = total =>
                  /\ ratios.numeric_ratio = Num(1, 1)
                  /\ SuggestedAs("convert_to_numeric", "high")

\* 16 numeric values in a sample of 20, the other four mixed alphanumeric
C17_Witness ==
    /\ pc = "analyzed"
    /\ Len(SampleStrings) = 20
    /\ Occurrences("7") = 16
    /\ Occurrences("A1") = 4
    /\ {analysis.suggestions[k].action : k \in 1..Len(analysis.suggestions)}
          = {"keep_as_text", "split_column"}

\* C18: detect_mixed_columns reports a column exactly when it is of dtype
\* object, has a non-missing value and its analysis has a suggestion other
\* than keep_as_text; requires_decisions is false when nothing is reported.
C18_ReportedColumns ==
    pc = "previewed" =>
        /\ response.kind = "preview"
        /\ \A i \in 1..Len(df.cols) :
              LET c == df.cols[i]
                  its == analyze_mixed_column(c.cells, c.name)
              IN  (\E k \in 1..Len(response.mixed_columns) :
                      response.mixed_columns[k].column_name = c.name)
                  <=> /\ c.dtype = "object"
                      /\ \E r \in 1..Len(c.cells) : ~isnull(c.cells[r])
                      /\ \E k \in 1..Len(its.suggestions) :
                            its.suggestions[k].action # "keep_as_text"
        /\ \A k \in 1..Len(response.mixed_columns) :
              response.mixed_columns[k] =
                  analyze_mixed_column(Col(df, response.mixed_columns[k].column_name).cells,
                                       response.mixed_columns[k].column_name)
        /\ response.mixed_columns = << >> => ~response.requires_decisions

\* the text column is reported and the request requires decisions
C18_Witness ==
    /\ pc = "previewed"
    /\ response.requires_decisions
    /\ Len(response.mixed_columns) = 1
    /\ response.mixed_columns[1].column_name = "b"
    /\ \E r \in 1..NRows(df) : isnull(Col(df, "b").cells[r])

-----------------------------------------------------------------------------
(* The analyzer's actions echoed back in a decision map *)

\* the action strings of the suggestions analyze_mixed_column appends
AnalyzerActions ==
    {"convert_to_numeric", "convert_to_date", "keep_as_categorical", "keep_as_text",
     "split_column"}

\* C19: no column decision whose action is one of the analyzer's action
\* strings is skipped by the column converter as an unknown action.
C19_EmittedActionsAccepted ==
    \A i \in 1..Len(audit_trail) :
        (audit_trail[i].stage = "decisions" /\ audit_trail[i].what = "unknown") =>
            \A k \in 1..Len(column_decisions) :
                LET item == column_decisions[k]
                IN  (item.column = audit_trail[i].col /\ item.decision.isMap
                        /\ item.decision.hasAction)
                    => item.decision.action \notin AnalyzerActions

-----------------------------------------------------------------------------
(* A runtime without sklearn *)

\* the module is about to be imported in a runtime without sklearn; the
\* request asks for knn imputation
InitKnn ==
    \E v \in {"app", "dp"}, t \in ImputeTables :
        /\ variant = v
        /\ upload = "ok"
        /\ caller_df = t
        /\ config = [DefaultConfig(Sections) EXCEPT !.imputation = Imputation("knn", FALSE)]
        /\ column_decisions = << >>
        /\ pc = "import"
        /\ df = t
        /\ aliased = FALSE
        /\ original_df = t
        /\ audit_trail = << >>
        /\ exc = NoExc
        /\ mixed_columns_decisions = << >>
        /\ missing_before = EmptyDict
        /\ missing_after = EmptyDict
        /\ outliers_detected = 0
        /\ rules_applied = 0
        /\ processing_summary = NoSummary
        /\ response = NoResponse
        /\ stages_run = << >>
        /\ analysis = NoAnalysis
        /\ SKLEARN_AVAILABLE = FALSE
        /\ uuids = 0
        /\ CLEANED_FOLDER = {}

\* app.py, line 5: from sklearn.impute import KNNImputer, at module level
\* and outside any try block
ImportApp ==
    /\ pc = "import"
    /\ IsApp
    /\ IF SKLEARN_AVAILABLE
       THEN pc' = "missing" /\ UNCHANGED exc
       ELSE pc' = "failed" /\ exc' = [type |-> "ImportError", at |-> "import"]
    /\ UNCHANGED <<inputs, caller_df, df, aliased, original_df, audit_trail,
                   mixed_columns_decisions, missing_before, missing_after,
                   outliers_detected, rules_applied, processing_summary, response,
                   stages_run>>

\* data_processor.py, lines 10-15: the import is tried and its failure kept
\* in SKLEARN_AVAILABLE
ImportDp ==
    /\ pc = "import"
    /\ variant = "dp"
    /\ pc' = "missing"
    /\ UNCHANGED <<inputs, caller_df, df, aliased, original_df, audit_trail, exc,
                   mixed_columns_decisions, missing_before, missing_after,
                   outliers_detected, rules_applied, processing_summary, response,
                   stages_run>>

NextKnn == ImportApp \/ ImportDp \/ DpHandleMissing

SpecKnn == InitKnn /\ [][NextKnn]_vars

\* the audit trail holds the entry of the fallback to the mean
DegradationLogged ==
    \E k \in 1..Len(audit_trail) :
        audit_trail[k].stage = "missing" /\ audit_trail[k].what = "knn_fallback"

\* the numeric column at position i of the input holds, after the stage, its
\* present cells and their mean in the cells that were missing
FilledWithMean(i) ==
    LET before == original_df.cols[i].cells
        after == df.cols[i].cells
    IN  /\ Len(after) = Len(before)
        /\ \A r \in 1..Len(before) :
              IF ~isnull(before[r]) THEN after[r] = before[r]
              ELSE IF Present(before) = << >> THEN isnull(after[r])
              ELSE IsMean(after[r], Present(before))

\* C20: without sklearn and with method knn, nothing fails, and after
\* missing-value handling every numeric column that had a missing cell holds
\* its mean there, the fallback is logged and the run is at the next stage.
C20_KnnUnavailableFallsBack ==
    (~SKLEARN_AVAILABLE /\ config.imputation.method = "knn") =>
        /\ exc = NoExc
        /\ pc \in {"import", "missing", "outliers"}
        /\ pc = "outliers" =>
              /\ DegradationLogged
              /\ \A i \in NumericPositions(original_df) :
                    MissingCount(original_df.cols[i]) > 0 => FilledWithMean(i)

-----------------------------------------------------------------------------
(* The processing summary *)

\* C21: process() returns a summary with the fields rows_original,
\* rows_cleaned, columns_final, missing_values_before, missing_values_after,
\* outliers_detected and rules_applied; the row and column counts are those
\* of the input and of the final table, and the missing-value maps hold
\* exactly the columns with a positive count.
C21_SummaryFields ==
    (ProcessEnded /\ exc.at # "write") =>
        /\ processing_summary # NoSummary
        /\ DOMAIN processing_summary =
              {"rows_original", "rows_cleaned", "columns_final", "missing_values_before",
               "missing_values_after", "outliers_detected", "rules_applied"}
        /\ processing_summary.rows_original = NRows(original_df)
        /\ processing_summary.rows_cleaned = NRows(df)
        /\ processing_summary.columns_final = Len(df.cols)
        /\ \A nm \in DOMAIN processing_summary.missing_values_before :
              processing_summary.missing_values_before[nm] > 0
        /\ \A nm \in DOMAIN processing_summary.missing_values_after :
              processing_summary.missing_values_after[nm] > 0

-----------------------------------------------------------------------------
(* Runs, their identifiers and the later requests that name one *)

\* Largest number of DataProcessor objects constructed.
MaxUuids == 3

\* the name pandas gives the column at position i when it reads a header:
\* a repeated name gets the suffix .1, .2, ...
MangledName(t, i) ==
    LET earlier == Cardinality({j \in 1..(i - 1) : t.cols[j].name = t.cols[i].name})
    IN  IF earlier = 0 THEN t.cols[i].name
        ELSE t.cols[i].name \o "." \o ToString(earlier)

\* the column pd.read_csv infers from the written cells of one column
InferColumn(name, cells) ==
    LET present == {r \in 1..Len(cells) : ~isnull(cells[r])}
        numeric(c) == c.k = "num" \/ (c.k = "str" /\ to_numeric(c.s).k = "num")
    IN  IF Len(cells) = 0 THEN Column(name, "object", cells)
        ELSE IF \A r \in present : numeric(cells[r])
        THEN Column(name, "number",
                    [r \in 1..Len(cells) |->
                        IF cells[r].k = "str" THEN to_numeric(cells[r].s) ELSE cells[r]])
        ELSE IF present = 1..Len(cells) /\ \A r \in present : cells[r].k = "bool"
        THEN Column(name, "bool", cells)
        ELSE Column(name, "object",
                    [r \in 1..Len(cells) |->
                        IF cells[r].k = "num" THEN Str(astype_str(cells[r]))
                        ELSE cells[r]])

\* pd.read_csv(file_path) of a file written by to_csv with at least one
\* column
read_csv(content) ==
    [idx  |-> content.idx,
     cols |-> [i \in 1..Len(content.cols) |->
                 InferColumn(MangledName(content, i), content.cols[i].cells)]]

\* DataProcessor(df, config)
NewProcessor(table) ==
    [df |-> DfCopy(table).df, caller |-> table, aliased |-> DfCopy(table).aliased,
     trail |-> << >>, exc |-> NoExc, mb |-> EmptyDict, ma |-> EmptyDict, od |-> 0,
     ra |-> 0, sklearn |-> SKLEARN_AVAILABLE]

\* DataProcessor.process() of app.py with no column decisions kept in the
\* object: the stages in order, an exception of one ending the call
process(st, cfg) ==
    IF ~Resolves("apply_schema_mapping")
    THEN Raise(log_action(st, "start", "started", ""), "AttributeError", "process")
    ELSE The({IF s4.exc # NoExc THEN s4 ELSE log_action(s4, "end", "complete", "") :
              s4 \in {IF s3.exc # NoExc THEN s3 ELSE apply_rules(s3, cfg) :
              s3 \in {IF s2.exc # NoExc THEN s2 ELSE detect_outliers(s2, cfg) :
              s2 \in {IF s1.exc # NoExc THEN s1 ELSE handle_missing_values(s1, cfg) :
              s1 \in {apply_schema_mapping(s0, cfg) :
              s0 \in {log_action(st, "start", "started", "")}}}}}})

\* the summary process() builds from its locals
SummaryOf(s, original) ==
    [rows_original |-> NRows(original),
     rows_cleaned |-> NRows(s.df),
     columns |-> Len(s.df.cols),
     missing_values_before |-> Positive(s.mb),
     missing_values_after |-> Positive(s.ma),
     outliers_detected |-> s.od,
     rules_applied |-> s.ra]

\* [f for f in os.listdir(CLEANED_FOLDER) if version_id in f]: the files
\* whose name contains the identifier
cleaned_files(version_id) == {f \in CLEANED_FOLDER : version_id \in Range(f.name)}

\* the state a request leaves in the variables of a run
RunState(table, cfg, s, summary) ==
    /\ caller_df' = table
    /\ config' = cfg
    /\ df' = s.df
    /\ aliased' = s.aliased
    /\ original_df' = table
    /\ audit_trail' = s.trail
    /\ exc' = s.exc
    /\ missing_before' = s.mb
    /\ missing_after' = s.ma
    /\ outliers_detected' = s.od
    /\ rules_applied' = s.ra
    /\ processing_summary' = summary
    /\ UNCHANGED <<variant, upload, column_decisions, mixed_columns_decisions,
                   stages_run, analysis, SKLEARN_AVAILABLE, pc>>

\* the tables uploaded and the configurations sent
VersionTables ==
    {TwoColumnTable(2, <<Num(1, 1), NaN>>, <<Str("A1"), Str("A1")>>),
     TwoColumnTable(1, <<Num(2, 1)>>, <<Str("x;y")>>)}

VersionConfigs ==
    {[DefaultConfig(Sections) EXCEPT !.schema_mapping = << >>,
                                     !.imputation = Imputation("mean", del)] :
        del \in BOOLEAN}

\* jsonify({...}) of a request that named a run: the identifier it named and
\* the file it loaded
VersionResponse(kind, version_id, file) ==
    [kind |-> kind, status |-> 200, fields |-> {"success"}, cause |-> NoExc,
     version_id |-> version_id, file |-> file]

NotFound(kind, version_id) ==
    [kind |-> kind, status |-> 404, fields |-> {"error"}, cause |-> NoExc,
     version_id |-> version_id, file |-> File(<< >>, EmptyTable)]

Failed(kind, version_id, file, cause) ==
    [kind |-> kind, status |-> 500, fields |-> {"error"}, cause |-> cause,
     version_id |-> version_id, file |-> file]

\* /process-with-decisions with a readable file and no column decisions
ProcessWithDecisions ==
    /\ pc = "serving"
    /\ uuids < MaxUuids
    /\ \E table \in VersionTables, cfg \in VersionConfigs :
          \E s \in {process(NewProcessor(table), cfg)} :
          LET version_id == uuid4(uuids + 1)
          IN  IF s.exc # NoExc
              THEN /\ RunState(table, cfg, s, NoSummary)
                   /\ response' = Failed("process", version_id,
                                         File(<< >>, EmptyTable), s.exc)
                   /\ UNCHANGED CLEANED_FOLDER
              ELSE /\ RunState(table, cfg, s, SummaryOf(s, table))
                   /\ response' = VersionResponse("process", version_id,
                                       File(CleanedName(version_id), to_csv(s.df)))
                   /\ CLEANED_FOLDER' = CLEANED_FOLDER
                         \cup {File(CleanedName(version_id), to_csv(s.df))}
    /\ uuids' = uuids + 1

\* /refine-version: the first listed file whose name contains the identifier
\* is read, processed and written under a name that keeps the name it had;
\* os.listdir returns the files in arbitrary order
RefineVersion ==
    /\ pc = "serving"
    /\ uuids < MaxUuids
    /\ \E original_version_id \in {uuid4(n) : n \in 1..MaxUuids}, cfg \in VersionConfigs :
          IF cleaned_files(original_version_id) = {}
          THEN /\ response' = NotFound("refine", original_version_id)
               /\ UNCHANGED <<variant, upload, config, column_decisions, caller_df, df,
                              aliased, original_df, audit_trail, exc,
                              mixed_columns_decisions, missing_before, missing_after,
                              outliers_detected, rules_applied, processing_summary,
                              stages_run, analysis, SKLEARN_AVAILABLE, pc, uuids,
                              CLEANED_FOLDER>>
          ELSE \E file \in cleaned_files(original_version_id) :
               \E table \in {read_csv(file.content)} :
               \E s \in {process(log_action(NewProcessor(table), "refine", "refining", ""),
                                 cfg)} :
               LET version_id == uuid4(uuids + 1)
               IN  /\ uuids' = uuids + 1
                   /\ IF s.exc # NoExc
                      THEN /\ RunState(table, cfg, s, NoSummary)
                           /\ response' = Failed("refine", original_version_id, file, s.exc)
                           /\ UNCHANGED CLEANED_FOLDER
                      ELSE /\ RunState(table, cfg, s, SummaryOf(s, table))
                           /\ response' = VersionResponse("refine", original_version_id,
                                                          file)
                           /\ CLEANED_FOLDER' = CLEANED_FOLDER
                                 \cup {File(RefinedName(version_id, file.name),
                                            to_csv(s.df))}

\* /sql-query, /visualize and /data-summary/<version_id>: the first listed
\* file whose name contains the identifier is read into DataProcessor(df, {})
LoadVersion ==
    /\ pc = "serving"
    /\ uuids < MaxUuids
    /\ \E kind \in {"sql-query", "visualize", "data-summary"},
          version_id \in {uuid4(n) : n \in 1..MaxUuids} :
          IF cleaned_files(version_id) = {}
          THEN /\ response' = NotFound(kind, version_id)
               /\ UNCHANGED <<df, caller_df, original_df, exc, uuids>>
          ELSE \E file \in cleaned_files(version_id) :
               /\ df' = read_csv(file.content)
               /\ caller_df' = df'
               /\ original_df' = df'
               /\ uuids' = uuids + 1
               /\ IF kind = "data-summary" /\ ~Resolves("get_data_summary")
                  THEN /\ exc' = [type |-> "AttributeError", at |-> "get_data_summary"]
                       /\ response' = Failed(kind, version_id, file, exc')
                  ELSE /\ exc' = NoExc
                       /\ response' = VersionResponse(kind, version_id, file)
    /\ UNCHANGED <<variant, upload, config, column_decisions, aliased, audit_trail,
                   mixed_columns_decisions, missing_before, missing_after,
                   outliers_detected, rules_applied, processing_summary, stages_run,
                   analysis, SKLEARN_AVAILABLE, pc, CLEANED_FOLDER>>

\* the server is up, its folder of cleaned files empty
InitVersions ==
    \E v \in {"app", "bound"} :
        /\ variant = v
        /\ upload = "ok"
        /\ caller_df = EmptyTable
        /\ config = DefaultConfig(Sections)
        /\ column_decisions = << >>
        /\ pc = "serving"
        /\ df = EmptyTable
        /\ aliased = FALSE
        /\ original_df = EmptyTable
        /\ audit_trail = << >>
        /\ exc = NoExc
        /\ mixed_columns_decisions = << >>
        /\ missing_before = EmptyDict
        /\ missing_after = EmptyDict
        /\ outliers_detected = 0
        /\ rules_applied = 0
        /\ processing_summary = NoSummary
        /\ response = NoResponse
        /\ stages_run = << >>
        /\ analysis = NoAnalysis
        /\ SKLEARN_AVAILABLE = TRUE
        /\ uuids = 0
        /\ CLEANED_FOLDER = {}

NextVersions == ProcessWithDecisions \/ RefineVersion \/ LoadVersion

SpecVersions == InitVersions /\ [][NextVersions]_vars

\* C22: a query, visualization, summary or refine request that names run V
\* loads the file that the run with identifier V wrote, also after V has
\* been refined.
C22_RunIdentifierNamesItsTable ==
    (/\ response.kind \in {"sql-query", "visualize", "data-summary", "refine"}
     /\ response.status # 404) =>
        /\ Len(response.file.name) > 1
        /\ response.file.name[2] = response.version_id

-----------------------------------------------------------------------------
(* The knn branch of app.py's handle_missing_values on its own *)

\* Largest number of rows of a table imputed with knn.
MaxKnnRows == 3

\* a table with n rows: the numeric columns "a" and "c" and the text column
\* "b"
KnnTable(n, acells, ccells) ==
    [idx  |-> [r \in 1..n |-> r - 1],
     cols |-> <<Column("a", "number", acells),
                Column("b", "object", [r \in 1..n |-> IF r = 1 THEN NaN ELSE Str("x")]),
                Column("c", "number", ccells)>>]

KnnTables ==
    UNION {{KnnTable(n, acells, ccells) :
               acells \in [1..n -> {NaN, Num(1, 1), Num(6, 1)}],
               ccells \in [1..n -> {NaN, Num(3, 1), Num(4, 1)}]} : n \in 1..MaxKnnRows}

\* method knn or mean, with or without an override for column "c", and the
\* knn_neighbors of the request or the default
KnnSections ==
    {[hasMethod |-> TRUE, method |-> m, delete_null_rows |-> FALSE, column_specific |-> cs,
      knn_neighbors |-> k] :
        m \in {"knn"}, cs \in {[c \in {} |-> ""], [c \in {"c"} |-> "mean"]},
        k \in {0, 1, DefaultNeighbors}}
    \cup {[hasMethod |-> TRUE, method |-> "mean", delete_null_rows |-> FALSE,
           column_specific |-> [c \in {"c"} |-> "knn"], knn_neighbors |-> DefaultNeighbors]}

InitKnnBranch ==
    \E t \in KnnTables, imp \in KnnSections :
        StageInit("app", "missing", t, [DefaultConfig(Sections) EXCEPT !.imputation = imp])

SpecKnnBranch == InitKnnBranch /\ [][HandleMissing]_vars

\* the first numeric column with a missing cell: handle_missing_values
\* reaches it with the table as it was handed over
FirstMissing ==
    {i \in NumericPositions(df) :
        /\ MissingCount(df.cols[i]) > 0
        /\ \A o \in NumericPositions(df) : o < i => MissingCount(df.cols[o]) = 0}

\* the column at position i and every other numeric column with strictly
\* fewer missing cells
Candidates(i) ==
    {i} \cup {o \in NumericPositions(df) \ {i} :
                 MissingCount(df.cols[o]) < MissingCount(df.cols[i])}

CompleteAcross(cols) ==
    {r \in 1..NRows(df) : \A o \in cols : ~isnull(df.cols[o].cells[r])}

\* k of the claim
Neighbours(i) ==
    LET complete == Cardinality(CompleteAcross(Candidates(i)))
    IN  IF config.imputation.knn_neighbors < complete
        THEN config.imputation.knn_neighbors ELSE complete

NewEntries == SubSeq(audit_trail', Len(audit_trail) + 1, Len(audit_trail'))

\* the step filled column i with its mean and says so
MeanFallback(i) ==
    /\ Entry("missing", "fallback_mean", df.cols[i].name) \in Range(NewEntries)
    /\ \A e \in Range(NewEntries) :
          e.col = df.cols[i].name => e.what = "fallback_mean"
    /\ \A r \in 1..NRows(df) :
          LET before == df.cols[i].cells[r]
              after == df'.cols[i].cells[r]
          IN  IF isnull(before) /\ Present(df.cols[i].cells) # << >>
              THEN IsMean(after, Present(df.cols[i].cells))
              ELSE after = before

\* the step ran KNN imputation with k neighbours over the columns cols for
\* column i: the entry names k, every column of cols is complete and keeps
\* its present cells, and a filled cell lies between the smallest and the
\* largest present cell of its column
KnnRan(i, cols, k) ==
    /\ Entry("missing", "knn_" \o ToString(k), df.cols[i].name) \in Range(NewEntries)
    /\ \A e \in Range(NewEntries) :
          e.col = df.cols[i].name => e.what = "knn_" \o ToString(k)
    /\ \A o \in cols : \A r \in 1..NRows(df) :
          LET before == df.cols[o].cells[r]
              after == df'.cols[o].cells[r]
              present == Present(df.cols[o].cells)
          IN  IF isnull(before)
              THEN /\ after.k = "num"
                   /\ \E n \in 1..Len(present) : ~RLess(after, present[n])
                   /\ \E n \in 1..Len(present) : ~RLess(present[n], after)
              ELSE after = before

\* C23: for a numeric column with missing cells and effective method knn,
\* the candidate set is the column plus every other numeric column with
\* strictly fewer missing cells; with one candidate the column is filled
\* with its mean; with two or more, k is the smaller of knn_neighbors and
\* the number of rows complete across the candidates, KNN imputation with
\* k neighbours runs when k > 0 and the column is filled with its mean
\* otherwise
C23_KnnBranch ==
    [][pc = "missing" =>
          \A i \in FirstMissing :
              EffectiveMethod(df.cols[i].name) = "knn" =>
                  IF Cardinality(Candidates(i)) = 1 THEN MeanFallback(i)
                  ELSE IF Neighbours(i) > 0
                  THEN KnnRan(i, Candidates(i), Neighbours(i))
                  ELSE MeanFallback(i)]_vars

\* KNN imputation ran with fewer neighbours than knn_neighbors, and
\* elsewhere a column was filled with its mean for want of a complete row
C23_Witness ==
    /\ pc = "outliers"
    /\ \E e \in Range(audit_trail) :
          /\ e.what = "knn_1"
          /\ config.imputation.knn_neighbors > 1
          /\ MissingCount(Col(original_df, "c")) > 0
          /\ MissingCount(Col(df, "c")) = 0
-----------------------------------------------------------------------------
(* Imputation with method mode *)

\* Largest number of rows of a table imputed with mode.
MaxModeRows == 3

\* a table with n rows: the numeric column "a" and the text column "b"
ModeTable(n, acells, bcells) ==
    [idx  |-> [r \in 1..n |-> r - 1],
     cols |-> <<Column("a", "number", acells), Column("b", "object", bcells)>>]

ModeTables ==
    UNION {{ModeTable(n, acells, bcells) :
               acells \in [1..n -> {NaN, Num(1, 1), Num(2, 1)}],
               bcells \in [1..n -> {NaN, Str("x"), Str("y")}]} : n \in 1..MaxModeRows}

InitMode ==
    \E v \in {"app", "dp"}, t \in ModeTables :
        StageInit(v, "missing", t,
                  [DefaultConfig(Sections) EXCEPT !.imputation = Imputation("mode", FALSE)])

NextMode ==
    \/ HandleMissing
    \/ DpHandleMissing

SpecMode == InitMode /\ [][NextMode]_vars

\* the column at position i is complete after the step: its present cells
\* are kept and each missing cell holds one most frequent present value
FilledWithMode(i) ==
    LET before == df.cols[i].cells
        after == df'.cols[i].cells
    IN  /\ Len(after) = Len(before)
        /\ \E v \in Modes(before) : \A r \in 1..Len(before) :
              after[r] = IF isnull(before[r]) THEN v ELSE before[r]

\* C24: with imputation method mode, every column with a missing cell and
\* a present value, numeric or not, has its missing cells filled with the
\* most frequent present value of the column and keeps its present cells
C24_ModeImputation ==
    [][pc = "missing" =>
          \A i \in 1..Len(df.cols) :
              (MissingCount(df.cols[i]) > 0 /\ Present(df.cols[i].cells) # << >>)
                  => FilledWithMode(i)]_vars

\* data_processor.py fills with the mode when every column holds a value
DpModeOnColumnsWithAValue ==
    [][(pc = "missing" /\ variant = "dp"
        /\ \A i \in 1..Len(df.cols) : Present(df.cols[i].cells) # << >>) =>
          \A i \in 1..Len(df.cols) : MissingCount(df.cols[i]) > 0 => FilledWithMode(i)]_vars
-----------------------------------------------------------------------------
(* The flag action of app.py's detect_outliers *)

\* Largest number of rows of a table handed to the flag action.
MaxFlagRows == 4

\* a table with n rows whose labels start at first (1 after dropna() took
\* the row labelled 0): the numeric columns "a" and "c", the text column
\* "b" and, for a table read from an earlier flagged run, "_outlier_flag"
FlagTable(n, first, acells, ccells, flagged) ==
    [idx  |-> [r \in 1..n |-> r - 1 + first],
     cols |-> <<Column("a", "number", acells),
                Column("b", "object", [r \in 1..n |-> Str("A1")]),
                Column("c", "number", ccells)>>
              \o (IF flagged
                  THEN <<Column("_outlier_flag", "bool", [r \in 1..n |-> Bool(r = 1)])>>
                  ELSE << >>)]

FlagTables ==
    UNION {{FlagTable(n, first, acells, ccells, flagged) :
               first \in {0, 1}, flagged \in BOOLEAN,
               acells \in [1..n -> {Num(1, 1), Num(6, 1)}],
               ccells \in [1..n -> {Num(1, 1), Num(6, 1)}]} : n \in 1..MaxFlagRows}

\* outlier_detection with action flag and threshold 1.5: enabled with
\* method iqr or zscore, or disabled
FlagConfigs ==
    {[DefaultConfig(Sections) EXCEPT
         !.outlier_detection = [enabled |-> e, method |-> m,
                                threshold |-> Num(3, 2), action |-> "flag"]] :
        e \in BOOLEAN, m \in {"iqr", "zscore"}}

InitFlag ==
    \E t \in FlagTables, c \in FlagConfigs : StageInit("bound", "outliers", t, c)

SpecFlag == InitFlag /\ [][DetectOutliers]_vars

\* the rows of the table with a value of a numeric column outside that
\* column's bounds under the configured method
RowsWithOutlier ==
    LET od == config.outlier_detection
    IN  {r \in 1..NRows(df) : \E i \in NumericPositions(df) :
            r \in IF od.method = "iqr"
                  THEN IqrOutliers(df.cols[i].cells, od.threshold.n, od.threshold.d)
                  ELSE ZscoreOutliers(df.cols[i].cells, od.threshold.n, od.threshold.d)}

\* the step added one boolean column that is true exactly on the outlier
\* rows and left the rows and the other columns as they were
FlagAdded ==
    /\ df'.idx = df.idx
    /\ Len(df'.cols) = Len(df.cols) + 1
    /\ \A i \in 1..Len(df.cols) : df'.cols[i] = df.cols[i]
    /\ df'.cols[Len(df'.cols)].cells = [r \in 1..NRows(df) |-> Bool(r \in RowsWithOutlier)]

\* C25: with outlier detection enabled and action flag, when a row is an
\* outlier the stage keeps the row count and every cell of the columns it
\* found and adds one boolean column that is true exactly on the outlier
\* rows; with outlier detection disabled the table is unchanged and 0 is
\* returned
C25_FlagAction ==
    [][pc = "outliers" =>
          IF config.outlier_detection.enabled
          THEN RowsWithOutlier # {} => FlagAdded
          ELSE df' = df /\ outliers_detected' = 0 /\ exc' = NoExc]_vars

\* the flag action on a table whose rows carry the labels 0..n-1 and that
\* has no "_outlier_flag" column
FlagOnFreshTable ==
    [][(pc = "outliers" /\ df.idx[1] = 0 /\ ~HasColumn(df, "_outlier_flag")) =>
          IF config.outlier_detection.enabled
          THEN RowsWithOutlier # {} => FlagAdded
          ELSE df' = df /\ outliers_detected' = 0 /\ exc' = NoExc]_vars
-----------------------------------------------------------------------------
(* The count returned by apply_rules *)

\* Largest number of rows of a table handed to a list of rules.
MaxCountRows == 3

\* Largest number of rules in a list.
MaxRules == 2

\* rules on the column "age": one that removes, one that flags, one with
\* the action "cap", one on an absent column, one that matches no row and
\* one whose value is not a number
CountedRules ==
    {Rule(RuleFields, "age", "greater_than", Num(30, 1), "remove"),
     Rule(RuleFields, "age", "is_null", Str(""), "flag"),
     Rule(RuleFields, "age", "greater_than", Num(30, 1), "cap"),
     Rule(RuleFields, "height", "is_null", Str(""), "remove"),
     Rule(RuleFields, "age", "greater_than", Num(100, 1), "remove"),
     Rule(RuleFields, "age", "less_than", Str("A1"), "remove")}

RuleLists == UNION {[1..n -> CountedRules] : n \in 0..MaxRules}

InitCount ==
    \E n \in 1..MaxCountRows, rules \in RuleLists :
        \E ages \in [1..n -> {NaN, Num(25, 1), Num(40, 1)}] :
            StageInit("bound", "rules", AgeTable(ages),
                      [DefaultConfig(Sections) EXCEPT !.rules = Rules(TRUE, rules)])

SpecCount == InitCount /\ [][ApplyRulesStage]_vars

RECURSIVE EffectiveRules(_, _)
\* the number of rules of the list that change the table they are applied
\* to, each rule applied to the table its predecessors left
EffectiveRules(t, rules) ==
    IF rules = << >> THEN 0
    ELSE LET after == ApplyRule([St EXCEPT !.df = t], rules[1]).df
         IN  (IF after # t THEN 1 ELSE 0) + EffectiveRules(after, Tail(rules))

\* C26: the value returned by apply_rules is the number of rules of the
\* list that had an effect on the table, i.e. removed a row or added a flag
\* column; a rule that is skipped, matches no row, fails or names another
\* action is not counted
C26_CountsEffectiveRules ==
    [][pc = "rules" =>
          rules_applied' = EffectiveRules(df, config.rules.custom_rules)]_vars

\* the count when every rule of the list names the action remove or flag
CountOfRemoveAndFlagRules ==
    [][(pc = "rules" /\ \A n \in 1..Len(config.rules.custom_rules) :
                           config.rules.custom_rules[n].action \in {"remove", "flag"}
                           /\ \A o \in 1..(n - 1) :
                                 config.rules.custom_rules[o] # config.rules.custom_rules[n]) =>
          rules_applied' = EffectiveRules(df, config.rules.custom_rules)]_vars
-----------------------------------------------------------------------------
(* Table changes and the audit trail *)

\* the entries a step adds to the trail, the start entry of process() aside
StageEntries ==
    {n \in (Len(audit_trail) + 1)..Len(audit_trail') : audit_trail'[n].stage # "start"}

\* C27: a step of a stage operation that changes the table (renames,
\* converts, splits or drops a column, fills a cell, removes rows, adds a
\* flag column) adds at least one entry to the audit trail
C27_ChangesAreLogged ==
    [][(pc \in {"route", "schema", "decisions", "missing", "outliers", "rules"}
        /\ df' # df) =>
          /\ SubSeq(audit_trail', 1, Len(audit_trail)) = audit_trail
          /\ StageEntries # {}]_vars

\* a run in which a rule removed rows after an earlier stage had changed the
\* table as well
C27_Witness ==
    /\ NRows(df) < NRows(original_df)
    /\ columns(df) # columns(original_df)
    /\ \E e \in Range(audit_trail) : e.stage = "rules" /\ e.what = "removed"
    /\ \E e \in Range(audit_trail) : e.stage \notin {"rules", "start"}
-----------------------------------------------------------------------------
(* The threshold suggestions of the analyzer exclude one another *)

ThresholdSuggestions == {"convert_to_numeric", "convert_to_date", "keep_as_categorical"}

\* C28: at most one of the suggestions convert_to_numeric, convert_to_date
\* and keep_as_categorical appears in a result of analyze_mixed_column:
\* every sampled value is counted in one bucket, so no two of the
\* thresholds 0.8, 0.6 and 0.7 are exceeded together
C28_OneThresholdSuggestion ==
    (pc = "analyzed" /\ ~analysis.null) =>
        /\ Cardinality({a \in ThresholdSuggestions : Suggested(a) # {}}) <= 1
        /\ LET ratios == analysis.analysis
               sum == RAdd(RAdd(ratios.numeric_ratio, ratios.date_ratio),
                           RAdd(ratios.mixed_ratio, ratios.text_ratio))
           IN  ~RLess(sum, Num(1, 1)) /\ ~RLess(Num(1, 1), sum)

\* convert_to_date is the one threshold suggestion of a sample that also
\* holds numeric values and codes
C28_Witness ==
    /\ pc = "analyzed"
    /\ ~analysis.null
    /\ Suggested("convert_to_date") # {}
    /\ Occurrences("7") > 0
    /\ Occurrences("A1") > 0
-----------------------------------------------------------------------------
(* The column decisions of one request *)

\* the entries of the trail that apply_column_decisions wrote for a column
DecisionEntries(col) ==
    {n \in 1..Len(audit_trail) :
        audit_trail[n].stage = "decisions" /\ audit_trail[n].col = col}

\* C29: in one process-with-decisions request each entry of the column
\* decision map is applied to the table once: the trail holds one entry
\* per applied decision and no column is converted or split a second time
C29_DecisionsAppliedOnce ==
    \A n \in 1..Len(column_decisions) :
        Cardinality(DecisionEntries(column_decisions[n].column)) <= 1

\* the decisions in the state that follows the call of line 803
DecisionsAppliedByTheRoute ==
    pc = "schema" =>
        \A n \in 1..Len(column_decisions) :
            Cardinality(DecisionEntries(column_decisions[n].column)) <= 1
-----------------------------------------------------------------------------
(* The missing-value counts of the summary and the returned table *)

\* C30: missing_values_after of the Processing Summary is the map of the
\* per-column missing-cell counts of the final cleaned table of the run,
\* also when the outlier stage or a rule removed rows or added columns
\* after the missing-value stage
C30_MissingAfterIsOfFinalTable ==
    processing_summary # NoSummary =>
        processing_summary.missing_values_after = Positive(MissingDict(df))

\* missing_values_after is the map of the table that handle_missing_values
\* left
MissingAfterIsOfImputedTable ==
    [][(pc = "missing" /\ exc' = NoExc) => missing_after' = MissingDict(df')]_vars
====
